------------------------------ MODULE AuthProofs ------------------------------
(***************************************************************************)
(* What Auth promises for any number of requests, browsers, links,         *)
(* sessions and rotations.                                                 *)
(***************************************************************************)
EXTENDS Auth, FiniteSetTheorems, TLAPS

Links == [kind : Kinds, status : {"open", "used", "expired"}]

\* The requests that are about to add a link: their kind's links were all
\* invalidated when they became such, or there was no user yet.
Makers(kind) == {h \in Requests : pc[h] = "createLink" /\ req[h].kind = kind}

Types ==
    /\ links \in Seq(Links)
    /\ row \in [Sessions -> {"none", "live", "expired", "deleted"}]
    /\ pc \in [Requests -> Labels]
    /\ DOMAIN req = Requests
    /\ ended \subseteq Sessions

Bounded(kind) ==
    Cardinality(OpenLinks(kind)) + Cardinality(Makers(kind)) <= Cardinality(Requests)

IInv ==
    /\ Types
    /\ \A h \in Requests :
         pc[h] \in {"createUser", "invalidate", "createLink"} => req[h].kind \in Kinds
    /\ account = "none" =>
         links = <<>> /\ \A h \in Requests : pc[h] \notin {"invalidate", "createLink"}
    /\ \A kind \in Kinds : Bounded(kind)
    /\ \A s \in ended : row[s] = "deleted"

-----------------------------------------------------------------------------
\* Both sets are finite, so that fewer members are a smaller number.
LEMMA OpenLinksFinite ==
  ASSUME Types, NEW kind
  PROVE  IsFiniteSet(OpenLinks(kind)) /\ IsFiniteSet(Makers(kind))
<1>1. Len(links) \in Nat /\ OpenLinks(kind) \subseteq 1 .. Len(links)
  BY DEF Types, OpenLinks
<1>2. IsFiniteSet(1 .. Len(links))
  BY <1>1, FS_Interval
<1>3. Makers(kind) \subseteq Requests /\ IsFiniteSet(Requests)
  BY AuthAssumption DEF Makers
<1> QED BY <1>1, <1>2, <1>3, FS_Subset

\* A step that adds neither a link nor a request about to add one.
LEMMA FewerLinks ==
  ASSUME IInv, NEW kind \in Kinds, OpenLinks(kind)' \subseteq OpenLinks(kind),
         Makers(kind)' \subseteq Makers(kind)
  PROVE  Bounded(kind)'
<1>1. IsFiniteSet(OpenLinks(kind)) /\ IsFiniteSet(Makers(kind))
  BY OpenLinksFinite DEF IInv
<1>2. /\ Cardinality(OpenLinks(kind)') <= Cardinality(OpenLinks(kind))
      /\ Cardinality(Makers(kind)') <= Cardinality(Makers(kind))
      /\ IsFiniteSet(OpenLinks(kind)') /\ IsFiniteSet(Makers(kind)')
  BY <1>1, FS_Subset
<1>3. Bounded(kind) /\ IsFiniteSet(Requests)
  BY AuthAssumption DEF IInv
<1>4. /\ Cardinality(OpenLinks(kind)) \in Nat /\ Cardinality(OpenLinks(kind)') \in Nat
      /\ Cardinality(Makers(kind)) \in Nat /\ Cardinality(Makers(kind)') \in Nat
      /\ Cardinality(Requests) \in Nat
  BY <1>1, <1>2, <1>3, FS_CardinalityType
<1> QED BY <1>2, <1>3, <1>4 DEF Bounded

\* With no link of the kind left, there is room for every request.
LEMMA NoLinks ==
  ASSUME NEW kind, OpenLinks(kind)' = {}
  PROVE  Bounded(kind)'
<1>1. Makers(kind)' \subseteq Requests /\ IsFiniteSet(Requests)
  BY AuthAssumption DEF Makers
<1>2. /\ IsFiniteSet(Makers(kind)')
      /\ Cardinality(Makers(kind)') <= Cardinality(Requests)
  BY <1>1, FS_Subset
<1>3. Cardinality(Makers(kind)') \in Nat /\ Cardinality(Requests) \in Nat
  BY <1>1, <1>2, FS_CardinalityType
<1>4. Cardinality(OpenLinks(kind)') = 0
  BY FS_EmptySet
<1> QED BY <1>2, <1>3, <1>4 DEF Bounded

-----------------------------------------------------------------------------

LEMMA InitIInv == Init => IInv
<1> SUFFICES ASSUME Init PROVE IInv
  OBVIOUS
<1>1. Types
  BY DEF Init, Types, Labels, Links
<1>2. \A kind \in Kinds : OpenLinks(kind) = {} /\ Makers(kind) = {}
  BY DEF Init, OpenLinks, Makers
<1>3. \A kind \in Kinds : Bounded(kind)
  <2>1. Cardinality({}) = 0 /\ Cardinality(Requests) \in Nat
    BY AuthAssumption, FS_EmptySet, FS_CardinalityType
  <2> QED BY <1>2, <2>1 DEF Bounded
<1> QED BY <1>1, <1>2, <1>3 DEF Init, IInv, Labels

\* A request that mails a link has not touched one before "invalidate".
LEMMA LinkRequestKeepsIInv ==
  ASSUME IInv, NEW h \in Requests, Register(h) \/ Resend(h) \/ Forgot(h)
  PROVE  IInv'
<1>1. PICK label \in {"createUser", "invalidate"}, kind \in Kinds :
        LinkRequest(h, label, kind) /\ (account = "none" => label = "createUser")
  BY DEF Register, Resend, Forgot, Kinds
<1>2. /\ UNCHANGED <<account, links, row, ended>> /\ pc[h] = "idle"
      /\ pc' = [pc EXCEPT ![h] = label] /\ req' = [req EXCEPT ![h] = [op |-> "link", kind |-> kind]]
  BY <1>1 DEF LinkRequest, Begin, user, session, history
<1>3. Types'
  BY <1>2 DEF IInv, Types, Labels
<1>4. \A k \in Kinds : OpenLinks(k)' = OpenLinks(k) /\ Makers(k)' = Makers(k)
  BY <1>2 DEF IInv, Types, OpenLinks, Open, Makers
<1>5. \A k \in Kinds : Bounded(k)'
  BY <1>4, FewerLinks
<1>6. \A g \in Requests :
        pc'[g] \in {"createUser", "invalidate", "createLink"} => req'[g].kind \in Kinds
  BY <1>2 DEF IInv, Types
<1> QED BY <1>1, <1>2, <1>3, <1>5, <1>6 DEF IInv, Types

LEMMA CreateUserKeepsIInv ==
  ASSUME IInv, NEW h \in Requests, CreateUser(h)
  PROVE  IInv'
<1>1. /\ UNCHANGED <<links, req, row, ended>> /\ pc[h] = "createUser"
      /\ pc' = [pc EXCEPT ![h] = "createLink"] /\ account = "none" /\ account' = "unverified"
  BY DEF CreateUser, Proceed, session, history
<1>2. Types'
  BY <1>1 DEF IInv, Types, Labels
<1>3. \A k \in Kinds : OpenLinks(k)' = {}
  BY <1>1 DEF IInv, OpenLinks
<1>4. \A k \in Kinds : Bounded(k)'
  BY <1>3, NoLinks
<1>5. \A g \in Requests :
        pc'[g] \in {"createUser", "invalidate", "createLink"} => req'[g].kind \in Kinds
  BY <1>1 DEF IInv, Types
<1> QED BY <1>1, <1>2, <1>4, <1>5 DEF IInv

LEMMA InvalidateKeepsIInv ==
  ASSUME IInv, NEW h \in Requests, Invalidate(h)
  PROVE  IInv'
<1>1. /\ UNCHANGED <<account, req, row, ended>> /\ pc[h] = "invalidate"
      /\ pc' = [pc EXCEPT ![h] = "createLink"] /\ req[h].kind \in Kinds
  BY DEF Invalidate, Proceed, session, history, IInv
<1> DEFINE kind == req[h].kind
<1>2. /\ links' \in Seq(Links) /\ DOMAIN links' = DOMAIN links
      /\ \A l \in DOMAIN links : /\ links'[l].kind = links[l].kind
                                 /\ links[l].kind = kind => links'[l].status = "used"
                                 /\ links[l].kind # kind => links'[l] = links[l]
  <2>1. links' = [l \in DOMAIN links |->
                    IF links[l].kind = kind
                    THEN [links[l] EXCEPT !.status = "used"] ELSE links[l]]
    BY DEF Invalidate
  <2>2. DOMAIN links = 1 .. Len(links) /\ Len(links) \in Nat
        /\ \A l \in DOMAIN links : links[l] \in Links
    BY DEF IInv, Types
  <2>3. \A l \in DOMAIN links : links'[l] \in Links
    BY <2>1, <2>2 DEF Links
  <2>4. links' \in Seq(Links)
    BY <2>1, <2>2, <2>3
  <2> QED BY <2>1, <2>2, <2>4 DEF Links
<1>3. Types'
  BY <1>1, <1>2 DEF IInv, Types, Labels
<1>4. \A k \in Kinds : Bounded(k)'
  <2> SUFFICES ASSUME NEW k \in Kinds PROVE Bounded(k)'
    OBVIOUS
  <2>1. CASE k = kind
    <3>1. OpenLinks(k)' = {}
      BY <1>2, <2>1 DEF OpenLinks, Open
    <3> QED BY <3>1, NoLinks
  <2>2. CASE k # kind
    <3>1. OpenLinks(k)' \subseteq OpenLinks(k) /\ Makers(k)' \subseteq Makers(k)
      BY <1>1, <1>2, <2>2 DEF OpenLinks, Open, Makers, IInv, Types
    <3> QED BY <3>1, FewerLinks
  <2> QED BY <2>1, <2>2
<1>5. account # "none"
  BY <1>1 DEF IInv
<1>6. \A g \in Requests :
        pc'[g] \in {"createUser", "invalidate", "createLink"} => req'[g].kind \in Kinds
  BY <1>1 DEF IInv, Types
<1> QED BY <1>1, <1>3, <1>4, <1>5, <1>6 DEF IInv

\* One link more, one request less that is about to add it.
LEMMA CreateLinkKeepsIInv ==
  ASSUME IInv, NEW h \in Requests, CreateLink(h)
  PROVE  IInv'
<1> DEFINE kind == req[h].kind
           new == Len(links) + 1
<1>1. /\ UNCHANGED <<account, row, ended>> /\ pc[h] = "createLink"
      /\ links' = Append(links, [kind |-> kind, status |-> "open"])
      /\ pc' = [pc EXCEPT ![h] = "mail"]
      /\ req' = [req EXCEPT ![h] = [op |-> "link", kind |-> kind, link |-> new]]
  BY DEF CreateLink, session, history
<1>2. kind \in Kinds /\ account # "none"
  BY <1>1 DEF IInv
<1>3. /\ links \in Seq(Links) /\ Len(links) \in Nat /\ links' \in Seq(Links)
      /\ DOMAIN links = 1 .. Len(links) /\ DOMAIN links' = 1 .. new
      /\ links'[new] = [kind |-> kind, status |-> "open"]
      /\ \A l \in DOMAIN links : links'[l] = links[l]
  BY <1>1, <1>2 DEF IInv, Types, Links
<1>4. Types'
  BY <1>1, <1>3 DEF IInv, Types, Labels
<1>5. \A k \in Kinds : Bounded(k)'
  <2> SUFFICES ASSUME NEW k \in Kinds PROVE Bounded(k)'
    OBVIOUS
  <2>1. CASE k = kind
    <3>1. OpenLinks(k)' = OpenLinks(k) \cup {new} /\ new \notin OpenLinks(k)
      BY <1>3, <2>1 DEF OpenLinks, Open
    <3>2. Makers(k)' = Makers(k) \ {h} /\ h \in Makers(k)
      BY <1>1, <2>1 DEF Makers, IInv, Types
    <3>3. IsFiniteSet(OpenLinks(k)) /\ IsFiniteSet(Makers(k))
      BY OpenLinksFinite DEF IInv
    <3>4. /\ Cardinality(OpenLinks(k)') = Cardinality(OpenLinks(k)) + 1
          /\ Cardinality(Makers(k)') = Cardinality(Makers(k)) - 1
      <4>1. Cardinality(OpenLinks(k) \cup {new}) = Cardinality(OpenLinks(k)) + 1
        BY <3>1, <3>3, FS_AddElement
      <4>2. Cardinality(Makers(k) \ {h}) = Cardinality(Makers(k)) - 1
        BY <3>2, <3>3, FS_RemoveElement
      <4> QED BY <3>1, <3>2, <4>1, <4>2
    <3>5. Cardinality(OpenLinks(k)) \in Nat /\ Cardinality(Makers(k)) \in Nat
          /\ Cardinality(Requests) \in Nat
      BY <3>3, AuthAssumption, FS_CardinalityType
    <3>6. Bounded(k)
      BY DEF IInv
    <3> QED BY <3>4, <3>5, <3>6 DEF Bounded
  <2>2. CASE k # kind
    <3>1. OpenLinks(k)' \subseteq OpenLinks(k) /\ Makers(k)' \subseteq Makers(k)
      BY <1>1, <1>3, <2>2 DEF OpenLinks, Open, Makers, IInv, Types
    <3> QED BY <3>1, FewerLinks
  <2> QED BY <2>1, <2>2
<1>6. \A g \in Requests :
        pc'[g] \in {"createUser", "invalidate", "createLink"} => req'[g].kind \in Kinds
  BY <1>1 DEF IInv, Types
<1> QED BY <1>1, <1>2, <1>4, <1>5, <1>6 DEF IInv

-----------------------------------------------------------------------------
\* Whatever the other steps do to the requests, none of them gets to the labels
\* at which a link is made, and links only close.
OthersKept ==
    /\ DOMAIN req' = Requests /\ pc' \in [Requests -> Labels]
    /\ \A h \in Requests :
         pc'[h] \in {"createUser", "invalidate", "createLink"} => pc'[h] = pc[h] /\ req'[h] = req[h]
    /\ links' \in Seq(Links) /\ DOMAIN links' = DOMAIN links
    /\ \A l \in DOMAIN links : /\ links'[l].kind = links[l].kind
                               /\ links'[l].status = "open" => links[l].status = "open"

LEMMA OthersKeepLinks ==
  ASSUME IInv, OthersKept, account' = "none" => account = "none",
         row' \in [Sessions -> {"none", "live", "expired", "deleted"}],
         ended' \subseteq Sessions, \A s \in ended' : row'[s] = "deleted"
  PROVE  IInv'
<1>1. Types'
  BY DEF Types, OthersKept
<1>2. \A k \in Kinds : Bounded(k)'
  <2> SUFFICES ASSUME NEW k \in Kinds PROVE Bounded(k)'
    OBVIOUS
  <2>1. OpenLinks(k)' \subseteq OpenLinks(k) /\ Makers(k)' \subseteq Makers(k)
    BY DEF OthersKept, OpenLinks, Open, Makers
  <2> QED BY <2>1, FewerLinks
<1>3. account' = "none" => links' = <<>>
  <2> SUFFICES ASSUME account' = "none" PROVE links' = <<>>
    OBVIOUS
  <2>1. links = <<>> /\ links' \in Seq(Links) /\ DOMAIN links' = DOMAIN links
    BY DEF IInv, OthersKept
  <2>2. Len(links') = 0
    BY <2>1
  <2> QED BY <2>1, <2>2
<1> QED BY <1>1, <1>2, <1>3 DEF IInv, OthersKept

\* The steps that only move a request to or from a label where no link is made.
LEMMA MoveOnly ==
  ASSUME IInv, NEW h \in Requests, NEW label \in Labels, NEW what,
         label \notin {"createUser", "invalidate", "createLink"},
         pc' = [pc EXCEPT ![h] = label], req' = [req EXCEPT ![h] = what], links' = links
  PROVE  OthersKept
BY DEF IInv, Types, OthersKept

Quiet == Labels \ {"createUser", "invalidate", "createLink"}

\* A link that is used, or expires, closes.
LEMMA LinkCloses ==
  ASSUME Types, NEW l, NEW status \in {"used", "expired"},
         links' = [links EXCEPT ![l].status = status]
  PROVE  /\ links' \in Seq(Links) /\ DOMAIN links' = DOMAIN links
         /\ \A k \in DOMAIN links : /\ links'[k].kind = links[k].kind
                                    /\ links'[k].status = "open" => links[k].status = "open"
<1>1. /\ DOMAIN links = 1 .. Len(links) /\ Len(links) \in Nat
      /\ \A k \in DOMAIN links : links[k] \in Links
  BY DEF Types
<1>2. DOMAIN links' = DOMAIN links /\ \A k \in DOMAIN links :
        links'[k] = IF k = l THEN [links[k] EXCEPT !.status = status] ELSE links[k]
  BY <1>1
<1>3. \A k \in DOMAIN links : links'[k] \in Links
  BY <1>1, <1>2 DEF Links
<1>4. links' \in [1 .. Len(links) -> Links]
  BY <1>1, <1>2, <1>3
<1>5. links' \in Seq(Links)
  BY <1>1, <1>4
<1> QED BY <1>1, <1>2, <1>5 DEF Links

\* The steps that change neither a link nor a session.
LEMMA MovesKeepIInv ==
  ASSUME IInv, NEW h \in Requests,
         \/ SendMail(h) \/ (\E l \in mailed : ValidateToken(h, l))
         \/ (\E b \in Browsers : Login(h, b) \/ Refresh(h, b))
         \/ FindSession(h) \/ SessionNotFound(h) \/ Answer(h) \/ Abort(h)
  PROVE  IInv'
<1>1. UNCHANGED <<account, links, row, ended>>
  BY DEF SendMail, ValidateToken, Login, Refresh, FindSession, SessionNotFound, Answer, Abort,
         BrowserRequest, user, session, history
<1>2. \E label \in Quiet : \E what :
        pc' = [pc EXCEPT ![h] = label] /\ req' = [req EXCEPT ![h] = what]
  BY DEF SendMail, ValidateToken, Login, Refresh, FindSession, SessionNotFound, Answer, Abort,
         BrowserRequest, Begin, Done, Quiet, Labels
<1>3. OthersKept
  BY <1>1, <1>2, MoveOnly DEF Quiet
<1> QED BY <1>1, <1>3, OthersKeepLinks DEF IInv, Types

\* A password is set, and with a reset every session ends.
LEMMA PasswordKeepsIInv ==
  ASSUME IInv, NEW h \in Requests, SetPassword(h) \/ ResetPassword(h)
  PROVE  IInv'
<1>1. /\ links' = [links EXCEPT ![req[h].link].status = "used"]
      /\ pc' = [pc EXCEPT ![h] = "idle"] /\ req' = [req EXCEPT ![h] = [op |-> "none"]]
      /\ account' \in {account, "verified"}
  BY DEF SetPassword, ResetPassword, UseLink, Done
<1>2. OthersKept
  <2>1. /\ links' \in Seq(Links) /\ DOMAIN links' = DOMAIN links
        /\ \A k \in DOMAIN links : /\ links'[k].kind = links[k].kind
                                   /\ links'[k].status = "open" => links[k].status = "open"
    BY <1>1, LinkCloses DEF IInv
  <2> QED BY <1>1, <2>1 DEF OthersKept, IInv, Types, Labels
<1>3. /\ row' \in [Sessions -> {"none", "live", "expired", "deleted"}]
      /\ ended' \subseteq Sessions /\ \A s \in ended' : row'[s] = "deleted"
  <2>1. CASE SetPassword(h)
    BY <2>1 DEF SetPassword, session, IInv, Types
  <2>2. CASE ResetPassword(h)
    BY <2>2 DEF ResetPassword, IInv, Types, Exists
  <2> QED BY <2>1, <2>2
<1> QED BY <1>1, <1>2, <1>3, OthersKeepLinks

\* A session comes into being or changes while it exists, never after its end.
LEMMA SessionsKeepIInv ==
  ASSUME IInv, NEW h \in Requests,
         \/ CreateSession(h) \/ Rotate(h) \/ DropSession(h)
         \/ \E b \in Browsers : Logout(h, b)
  PROVE  IInv'
<1>1. account' = account /\ links' = links
  BY DEF CreateSession, Rotate, DropSession, Logout, BrowserRequest, user
<1>2. \E label \in Quiet : \E what :
        pc' = [pc EXCEPT ![h] = label] /\ req' = [req EXCEPT ![h] = what]
  <2>1. CASE Rotate(h)
    <3>1. req' = [req EXCEPT ![h] = [req[h] EXCEPT !.token = <<req[h].session,
                                                              turn[req[h].session] + 1>>]]
      BY <2>1 DEF Rotate, IInv, Types
    <3> QED BY <2>1, <3>1 DEF Rotate, Quiet, Labels
  <2>2. CASE CreateSession(h) \/ DropSession(h) \/ \E b \in Browsers : Logout(h, b)
    BY <2>2 DEF CreateSession, DropSession, Logout, BrowserRequest, Begin, Done, Quiet, Labels
  <2> QED BY <2>1, <2>2
<1>3. OthersKept
  BY <1>1, <1>2, MoveOnly DEF Quiet
<1>4. /\ row' \in [Sessions -> {"none", "live", "expired", "deleted"}]
      /\ ended' \subseteq Sessions /\ \A s \in ended' : row'[s] = "deleted"
  <2>1. CASE CreateSession(h)
    BY <2>1 DEF CreateSession, history, IInv, Types
  <2>2. CASE Rotate(h)
    BY <2>2 DEF Rotate, Exists, history, IInv, Types
  <2>3. CASE DropSession(h)
    BY <2>3 DEF DropSession, Exists, IInv, Types
  <2>4. CASE \E b \in Browsers : Logout(h, b)
    BY <2>4 DEF Logout, Accepts, Exists, IInv, Types
  <2> QED BY <2>1, <2>2, <2>3, <2>4
<1> QED BY <1>1, <1>3, <1>4, OthersKeepLinks

LEMMA TimeKeepsIInv ==
  ASSUME IInv, Time
  PROVE  IInv'
<1>1. UNCHANGED <<account, pc, req, ended>>
  BY DEF Time, LinkExpires, SessionExpires, user, request, history
<1>2. CASE \E l \in DOMAIN links : LinkExpires(l)
  <2>1. row' = row
    BY <1>2 DEF LinkExpires, session
  <2>2. OthersKept
    <3>1. PICK l \in DOMAIN links : links' = [links EXCEPT ![l].status = "expired"]
      BY <1>2 DEF LinkExpires
    <3>2. /\ links' \in Seq(Links) /\ DOMAIN links' = DOMAIN links
          /\ \A k \in DOMAIN links : /\ links'[k].kind = links[k].kind
                                     /\ links'[k].status = "open" => links[k].status = "open"
      BY <3>1, LinkCloses DEF IInv
    <3> QED BY <1>1, <3>2 DEF OthersKept, IInv, Types
  <2> QED BY <1>1, <2>1, <2>2, OthersKeepLinks DEF IInv, Types
<1>3. CASE \E s \in Sessions : SessionExpires(s)
  <2>1. links' = links
    BY <1>3 DEF SessionExpires, user
  <2>2. OthersKept
    BY <1>1, <2>1 DEF OthersKept, IInv, Types
  <2>3. /\ row' \in [Sessions -> {"none", "live", "expired", "deleted"}]
        /\ \A s \in ended : row'[s] = "deleted"
    BY <1>3 DEF SessionExpires, IInv, Types
  <2> QED BY <1>1, <2>2, <2>3, OthersKeepLinks DEF IInv, Types
<1> QED BY <1>2, <1>3 DEF Time

LEMMA NextKeepsIInv == IInv /\ [Next]_vars => IInv'
<1> SUFFICES ASSUME IInv, [Next]_vars PROVE IInv'
  OBVIOUS
<1>1. ASSUME NEW h \in Requests, LinkStep(h) PROVE IInv'
  BY <1>1, LinkRequestKeepsIInv, CreateUserKeepsIInv, InvalidateKeepsIInv,
     CreateLinkKeepsIInv, MovesKeepIInv DEF LinkStep
<1>2. ASSUME NEW h \in Requests, PasswordStep(h) PROVE IInv'
  BY <1>2, MovesKeepIInv, PasswordKeepsIInv DEF PasswordStep
<1>3. ASSUME NEW h \in Requests, SessionStep(h) PROVE IInv'
  BY <1>3, MovesKeepIInv, SessionsKeepIInv DEF SessionStep
<1>4. ASSUME NEW h \in Requests, Abort(h) PROVE IInv'
  BY <1>4, MovesKeepIInv
<1>5. CASE UNCHANGED vars
  BY <1>5 DEF vars, user, session, request, history, IInv, Types, Bounded, OpenLinks, Open, Makers
<1> QED BY <1>1, <1>2, <1>3, <1>4, <1>5, TimeKeepsIInv DEF Next

LEMMA AlwaysIInv == Spec => []IInv
BY InitIInv, NextKeepsIInv, PTL DEF Spec

-----------------------------------------------------------------------------

\* At most as many links of a kind are valid at once as requests are in flight
\* at once: the requests that will add one invalidated all the others.
THEOREM LinksAreBounded == Spec => []LinksBounded
<1>1. IInv => LinksBounded
  <2> SUFFICES ASSUME IInv, NEW kind \in Kinds
               PROVE  Cardinality(OpenLinks(kind)) <= Cardinality(Requests)
    BY DEF LinksBounded
  <2>1. IsFiniteSet(OpenLinks(kind)) /\ IsFiniteSet(Makers(kind)) /\ Bounded(kind)
    BY OpenLinksFinite DEF IInv
  <2>2. /\ Cardinality(OpenLinks(kind)) \in Nat /\ Cardinality(Makers(kind)) \in Nat
        /\ Cardinality(Requests) \in Nat
    BY <2>1, AuthAssumption, FS_CardinalityType
  <2> QED BY <2>1, <2>2 DEF Bounded
<1> QED BY <1>1, AlwaysIInv, PTL

\* No request brings a session back that another one has ended.
THEOREM EndedSessionsStayEnded == Spec => []EndedStaysEnded
<1>1. IInv => EndedStaysEnded
  BY DEF IInv, EndedStaysEnded, Exists
<1> QED BY <1>1, AlwaysIInv, PTL

-----------------------------------------------------------------------------
\* The newest link of a kind that is used up without a password having been set
\* with it has a request behind it that is about to make the next one, unless
\* such a request was cut off.
LinkLasts ==
    \A l \in DOMAIN links :
        /\ links[l].status = "used" /\ l \notin spent
        /\ \A k \in DOMAIN links : k > l => links[k].kind # links[l].kind
        => cut \/ \E h \in Requests : pc[h] = "createLink" /\ req[h].kind = links[l].kind

MakersStay ==
    \/ cut'
    \/ \A kind \in Kinds :
         (\E h \in Requests : pc[h] = "createLink" /\ req[h].kind = kind)
         => \E h \in Requests : pc'[h] = "createLink" /\ req'[h].kind = kind

LEMMA LinkKinds == Types => \A l \in DOMAIN links : links[l] \in Links /\ links[l].kind \in Kinds
<1> SUFFICES ASSUME Types PROVE \A l \in DOMAIN links : links[l] \in Links /\ links[l].kind \in Kinds
  OBVIOUS
<1>1. \A l \in DOMAIN links : links[l] \in Links
  BY DEF Types
<1> QED BY <1>1 DEF Links

LEMMA OthersMakersStay ==
  ASSUME NEW h \in Requests, pc[h] # "createLink",
         \A g \in Requests \ {h} : pc'[g] = pc[g] /\ req'[g] = req[g]
  PROVE  MakersStay
BY DEF MakersStay

\* No step but CreateLink adds a link, and only Invalidate and the setting of a
\* password use one.
LEMMA KeepsLinkLasts ==
  ASSUME Types, LinkLasts, MakersStay, cut => cut', spent \subseteq spent',
         DOMAIN links' = DOMAIN links,
         \A l \in DOMAIN links : /\ links'[l].kind = links[l].kind
                                 /\ links'[l].status = "used" => links[l].status = "used" \/ l \in spent'
  PROVE  LinkLasts'
<1> SUFFICES ASSUME NEW l \in DOMAIN links, links'[l].status = "used", l \notin spent',
                    \A k \in DOMAIN links : k > l => links'[k].kind # links'[l].kind
             PROVE  cut' \/ \E h \in Requests : pc'[h] = "createLink" /\ req'[h].kind = links'[l].kind
  BY DEF LinkLasts
<1>1. links[l].kind \in Kinds /\ links'[l].kind = links[l].kind
  BY LinkKinds
<1>2. cut \/ \E h \in Requests : pc[h] = "createLink" /\ req[h].kind = links[l].kind
  BY <1>1 DEF LinkLasts
<1> QED BY <1>1, <1>2 DEF MakersStay

LEMMA InvalidateLasts ==
  ASSUME IInv, LinkLasts, NEW h \in Requests, Invalidate(h)
  PROVE  LinkLasts'
<1> DEFINE kind == req[h].kind
<1>1. /\ UNCHANGED <<req, spent, cut>> /\ pc[h] = "invalidate" /\ kind \in Kinds
      /\ pc' = [pc EXCEPT ![h] = "createLink"] /\ pc \in [Requests -> Labels]
  BY DEF Invalidate, Proceed, history, IInv, Types
<1>2. DOMAIN links' = DOMAIN links /\ \A l \in DOMAIN links :
        /\ links'[l].kind = links[l].kind
        /\ links[l].kind # kind => links'[l] = links[l]
  <2>1. \A l \in DOMAIN links : links[l] \in Links
    BY DEF IInv, Types
  <2> QED BY <2>1 DEF Invalidate, Links
<1>3. \A g \in Requests : pc[g] = "createLink" => pc'[g] = "createLink" /\ req'[g] = req[g]
  BY <1>1
<1>4. pc'[h] = "createLink" /\ req'[h].kind = kind
  BY <1>1
<1> SUFFICES ASSUME NEW l \in DOMAIN links, links'[l].status = "used", l \notin spent', ~ cut',
                    \A k \in DOMAIN links : k > l => links'[k].kind # links'[l].kind
             PROVE  \E g \in Requests : pc'[g] = "createLink" /\ req'[g].kind = links'[l].kind
  BY <1>2 DEF LinkLasts
<1>5. links[l].kind \in Kinds /\ links'[l].kind = links[l].kind
  BY <1>2, LinkKinds DEF IInv
<1>6. CASE links[l].kind = kind
  BY <1>4, <1>5, <1>6
<1>7. CASE links[l].kind # kind
  <2>1. \E g \in Requests : pc[g] = "createLink" /\ req[g].kind = links[l].kind
    BY <1>1, <1>2, <1>7 DEF LinkLasts
  <2> QED BY <1>3, <1>5, <2>1
<1> QED BY <1>6, <1>7

LEMMA CreateLinkLasts ==
  ASSUME IInv, LinkLasts, NEW h \in Requests, CreateLink(h)
  PROVE  LinkLasts'
<1> DEFINE kind == req[h].kind
           new == Len(links) + 1
<1>1. /\ UNCHANGED <<spent, cut>> /\ pc[h] = "createLink" /\ kind \in Kinds
      /\ links' = Append(links, [kind |-> kind, status |-> "open"])
      /\ \A g \in Requests \ {h} : pc'[g] = pc[g] /\ req'[g] = req[g]
  BY DEF CreateLink, history, IInv, Types
<1>2. /\ Len(links) \in Nat /\ DOMAIN links = 1 .. Len(links) /\ DOMAIN links' = 1 .. new
      /\ links'[new] = [kind |-> kind, status |-> "open"]
      /\ \A l \in DOMAIN links : links'[l] = links[l]
      /\ \A l \in DOMAIN links : links[l].kind \in Kinds
  <2>1. links \in Seq(Links) /\ [kind |-> kind, status |-> "open"] \in Links
    BY <1>1 DEF IInv, Types, Links
  <2>2. \A l \in DOMAIN links : links[l].kind \in Kinds
    BY LinkKinds DEF IInv
  <2> QED BY <1>1, <2>1, <2>2
<1> SUFFICES ASSUME NEW l \in DOMAIN links', links'[l].status = "used", l \notin spent', ~ cut',
                    \A k \in DOMAIN links' : k > l => links'[k].kind # links'[l].kind
             PROVE  \E g \in Requests : pc'[g] = "createLink" /\ req'[g].kind = links'[l].kind
  BY DEF LinkLasts
<1>3. l \in DOMAIN links /\ new > l /\ links'[l] = links[l]
  BY <1>2
<1>4. links[l].kind # kind
  BY <1>2, <1>3
<1>5. \E g \in Requests : pc[g] = "createLink" /\ req[g].kind = links[l].kind
  BY <1>1, <1>2, <1>3 DEF LinkLasts
<1> QED BY <1>1, <1>3, <1>4, <1>5

LEMMA PasswordLasts ==
  ASSUME IInv, LinkLasts, NEW h \in Requests, SetPassword(h) \/ ResetPassword(h)
  PROVE  LinkLasts'
<1>1. /\ links' = [links EXCEPT ![req[h].link].status = "used"]
      /\ spent' = spent \cup {req[h].link} /\ cut' = cut
      /\ pc[h] # "createLink" /\ \A g \in Requests \ {h} : pc'[g] = pc[g] /\ req'[g] = req[g]
  BY DEF SetPassword, ResetPassword, UseLink, Done, IInv, Types
<1>2. DOMAIN links' = DOMAIN links /\ \A l \in DOMAIN links :
        /\ links'[l].kind = links[l].kind
        /\ links'[l].status = "used" => links[l].status = "used" \/ l \in spent'
  <2>1. \A l \in DOMAIN links : links[l] \in Links
    BY DEF IInv, Types
  <2> QED BY <1>1, <2>1 DEF Links
<1>3. MakersStay
  BY <1>1, OthersMakersStay
<1> QED BY <1>1, <1>2, <1>3, KeepsLinkLasts DEF IInv

LEMMA NextKeepsLinkLasts == IInv /\ LinkLasts /\ [Next]_vars => LinkLasts'
<1> SUFFICES ASSUME IInv, LinkLasts, [Next]_vars PROVE LinkLasts'
  OBVIOUS
<1>1. Types
  BY DEF IInv
<1>2. ASSUME UNCHANGED <<links, spent>>, MakersStay, cut => cut' PROVE LinkLasts'
  BY <1>1, <1>2, KeepsLinkLasts
<1>3. ASSUME NEW h \in Requests,
             \/ Register(h) \/ Resend(h) \/ Forgot(h) \/ CreateUser(h) \/ SendMail(h)
             \/ \E l \in mailed : ValidateToken(h, l)
             \/ SessionStep(h)
      PROVE  LinkLasts'
  <2>1. UNCHANGED <<links, spent, cut>>
    BY <1>3 DEF Register, Resend, Forgot, LinkRequest, CreateUser, SendMail, ValidateToken, SessionStep,
       Login, Refresh, Logout, BrowserRequest, CreateSession, FindSession, SessionNotFound, Rotate,
       DropSession, Answer, user, history
  <2>2. pc[h] # "createLink"
    BY <1>3 DEF Register, Resend, Forgot, LinkRequest, CreateUser, SendMail, ValidateToken, SessionStep,
       Login, Refresh, Logout, BrowserRequest, CreateSession, FindSession, SessionNotFound, Rotate,
       DropSession, Answer, Begin
  <2>3. \A g \in Requests \ {h} : pc'[g] = pc[g] /\ req'[g] = req[g]
    BY <1>1, <1>3 DEF Register, Resend, Forgot, LinkRequest, CreateUser, SendMail, ValidateToken,
       SessionStep, Login, Refresh, Logout, BrowserRequest, CreateSession, FindSession, SessionNotFound,
       Rotate, DropSession, Answer, Begin, Proceed, Done, Types
  <2> QED BY <1>2, <2>1, <2>2, <2>3, OthersMakersStay
<1>4. ASSUME NEW h \in Requests, Abort(h) PROVE LinkLasts'
  <2>1. /\ UNCHANGED <<links, spent>> /\ cut' = (cut \/ pc[h] = "createLink")
        /\ \A g \in Requests \ {h} : pc'[g] = pc[g] /\ req'[g] = req[g]
    BY <1>1, <1>4 DEF Abort, Done, user, Types
  <2>2. MakersStay
    BY <2>1, OthersMakersStay DEF MakersStay
  <2> QED BY <1>2, <2>1, <2>2
<1>5. CASE Time
  <2>1. UNCHANGED <<pc, req, spent, cut>>
    BY <1>5 DEF Time, LinkExpires, SessionExpires, request, history
  <2>2. MakersStay
    BY <2>1 DEF MakersStay
  <2>3. DOMAIN links' = DOMAIN links /\ \A l \in DOMAIN links :
          links'[l].kind = links[l].kind /\ (links'[l].status = "used" => links[l].status = "used")
    <3>1. \A l \in DOMAIN links : links[l] \in Links
      BY <1>1 DEF Types
    <3> QED BY <1>5, <3>1 DEF Time, LinkExpires, SessionExpires, user, Links
  <2> QED BY <1>1, <2>1, <2>2, <2>3, KeepsLinkLasts
<1>6. CASE UNCHANGED vars
  <2>1. UNCHANGED <<links, spent, cut, pc, req>>
    BY <1>6 DEF vars, user, request, history
  <2> QED BY <1>2, <2>1 DEF MakersStay
<1> QED BY <1>3, <1>4, <1>5, <1>6, InvalidateLasts, CreateLinkLasts, PasswordLasts
        DEF Next, LinkStep, PasswordStep

\* When no request is under way the newest link of a kind works for its time, or
\* a password was set with it, or a request was cut off before it made a newer.
THEOREM NewestLinksWork == Spec => []NewestLinkWorks
<1>1. Init => LinkLasts
  BY DEF Init, LinkLasts
<1>2. LinkLasts => NewestLinkWorks
  BY DEF LinkLasts, NewestLinkWorks
<1> QED BY <1>1, <1>2, AlwaysIInv, NextKeepsLinkLasts, PTL DEF Spec

-----------------------------------------------------------------------------
\* The sessions of the browsers.

Busy == {"createSession", "findSession", "rotate", "dropSession", "answer"}

SessionTypes ==
    /\ row \in [Sessions -> {"none", "live", "expired", "deleted"}]
    /\ turn \in [Sessions -> 0 .. MaxTurn]
    /\ cookie \in [Browsers -> Tokens]
    /\ pc \in [Requests -> Labels]
    /\ DOMAIN req = Requests
    /\ \A h \in Requests :
         IF pc[h] \in Busy
           THEN \E b \in Browsers, s \in {0} \cup Sessions, t \in Tokens : req[h] = For(b, s, t)
           ELSE req[h].op # "session"
    /\ orderly \subseteq Browsers /\ ended \subseteq Sessions
    /\ \A s \in Sessions : row[s] = "none" => turn[s] = 0
    /\ \A s \in ended : row[s] = "deleted"

Mine(h, b) == req[h].op = "session" /\ req[h].browser = b

\* The sessions a browser has to do with, by its cookie or by its requests.
Holds(b, s) ==
    \/ cookie[b] # NoCookie /\ cookie[b][1] = s
    \/ \E h \in Requests : /\ Mine(h, b)
                           /\ \/ req[h].session = s
                              \/ req[h].token # NoCookie /\ req[h].token[1] = s

OneHolder ==
    \A s \in Sessions :
        /\ \A b, c \in Browsers : Holds(b, s) /\ Holds(c, s) => b = c
        /\ row[s] = "none" => \A b \in Browsers : ~ Holds(b, s)

\* A token that the session accepts, unless the session was ended.
Valid(token) == token[1] \in ended \/ Accepts(token[1], token)

\* A browser that waits for each answer has one request at most, and what that
\* request leaves it with is valid.
Orderly(b) ==
    /\ \A h, g \in Requests : Mine(h, b) /\ Mine(g, b) => h = g
    /\ ~ InFlight(b) /\ cookie[b] # NoCookie => Valid(cookie[b])
    /\ \A h \in Requests : Mine(h, b) =>
         /\ pc[h] = "findSession" =>
              req[h].token = cookie[b] /\ cookie[b] # NoCookie /\ Valid(cookie[b])
         /\ pc[h] \in {"rotate", "dropSession"} =>
              cookie[b] # NoCookie /\ req[h].session = cookie[b][1] /\ Valid(cookie[b])
         /\ pc[h] = "answer" /\ req[h].token # NoCookie => Valid(req[h].token)

SInv == SessionTypes /\ OneHolder /\ \A b \in orderly : Orderly(b)

-----------------------------------------------------------------------------

\* What is known of a request of a browser.
LEMMA BusyRequest ==
  ASSUME SessionTypes, NEW h \in Requests
  PROVE  /\ pc[h] \in Busy => /\ req[h].op = "session" /\ req[h].browser \in Browsers
                              /\ req[h].session \in {0} \cup Sessions /\ req[h].token \in Tokens
                              /\ req[h] = For(req[h].browser, req[h].session, req[h].token)
         /\ req[h].op = "session" => pc[h] \in Busy
<1>1. ASSUME pc[h] \in Busy
      PROVE  /\ req[h].op = "session" /\ req[h].browser \in Browsers
             /\ req[h].session \in {0} \cup Sessions /\ req[h].token \in Tokens
             /\ req[h] = For(req[h].browser, req[h].session, req[h].token)
  <2>1. PICK b \in Browsers, s \in {0} \cup Sessions, t \in Tokens : req[h] = For(b, s, t)
    BY <1>1 DEF SessionTypes
  <2>2. /\ req[h].op = "session" /\ req[h].browser = b /\ req[h].session = s /\ req[h].token = t
    BY <2>1 DEF For
  <2> QED BY <2>1, <2>2
<1>2. req[h].op = "session" => pc[h] \in Busy
  BY DEF SessionTypes
<1> QED BY <1>1, <1>2

LEMMA TokenSession == \A t \in Tokens : t # NoCookie => t[1] \in Sessions
BY DEF Tokens

\* No step gives a session to a browser that has nothing to do with it yet.
LEMMA HoldersShrink ==
  ASSUME OneHolder, \A s \in Sessions, b \in Browsers : Holds(b, s)' => Holds(b, s),
         \A s \in Sessions : row'[s] = "none" => row[s] = "none"
  PROVE  OneHolder'
BY DEF OneHolder

\* A token stays valid while its session is not rotated, or ends.
LEMMA TokenStaysValid ==
  ASSUME NEW t \in Tokens, t # NoCookie, Valid(t), ended \subseteq ended',
         turn'[t[1]] = turn[t[1]],
         Exists(t[1]) => Exists(t[1])' \/ t[1] \in ended'
  PROVE  Valid(t)'
BY DEF Valid, Accepts

\* A browser that the step is not about.
LEMMA OtherBrowser ==
  ASSUME SInv, NEW b \in orderly, cookie'[b] = cookie[b],
         \A h \in Requests : Mine(h, b) \/ Mine(h, b)' => pc'[h] = pc[h] /\ req'[h] = req[h],
         \A t \in Tokens : t # NoCookie /\ Holds(b, t[1]) /\ Valid(t) => Valid(t)'
  PROVE  Orderly(b)'
<1>1. SessionTypes /\ Orderly(b) /\ b \in Browsers /\ cookie[b] \in Tokens
  BY DEF SInv, SessionTypes
<1>2. \A h \in Requests : Mine(h, b)' <=> Mine(h, b)
  BY DEF Mine
<1>3. InFlight(b)' <=> InFlight(b)
  BY <1>2 DEF InFlight, Mine
<1>4. cookie[b] # NoCookie /\ Valid(cookie[b]) => Valid(cookie[b])'
  <2> SUFFICES ASSUME NEW t \in Tokens, t = cookie[b], t # NoCookie, Valid(t) PROVE Valid(t)'
    BY <1>1 DEF Valid, Accepts, Exists
  <2>1. Holds(b, t[1])
    BY DEF Holds
  <2> QED BY <2>1
<1>5. ASSUME NEW h \in Requests, Mine(h, b), req[h].token # NoCookie, Valid(req[h].token)
      PROVE  Valid(req[h].token)'
  <2>1. req[h].token \in Tokens
    BY <1>1, <1>5, BusyRequest DEF Mine
  <2> SUFFICES ASSUME NEW t \in Tokens, t = req[h].token, t # NoCookie, Valid(t) PROVE Valid(t)'
    BY <1>2, <1>5, <2>1 DEF Valid, Accepts, Exists
  <2>2. Holds(b, t[1])
    BY <1>5 DEF Holds
  <2> QED BY <2>2
<1> QED BY <1>1, <1>2, <1>3, <1>4, <1>5 DEF Orderly

\* What the steps that are not a browser's may do: end sessions, or let them run
\* out of their time.
SessionsLeft ==
    /\ UNCHANGED <<turn, cookie>>
    /\ row' \in [Sessions -> {"none", "live", "expired", "deleted"}]
    /\ ended \subseteq ended' /\ ended' \subseteq Sessions
    /\ \A s \in ended' : row'[s] = "deleted"
    /\ \A s \in Sessions : /\ row'[s] = "none" <=> row[s] = "none"
                           /\ Exists(s) => Exists(s)' \/ s \in ended'

LEMMA LeftStaysValid ==
  ASSUME SessionTypes, SessionsLeft, NEW t \in Tokens, t # NoCookie, Valid(t)
  PROVE  Valid(t)'
<1>1. t[1] \in Sessions
  BY TokenSession
<1> QED BY <1>1, TokenStaysValid DEF SessionsLeft

LEMMA OthersKeepSInv ==
  ASSUME SInv, SessionsLeft, orderly' = orderly,
         pc' \in [Requests -> Labels], DOMAIN req' = Requests,
         \A h \in Requests :
            /\ pc[h] \in Busy \/ pc'[h] \in Busy => pc'[h] = pc[h] /\ req'[h] = req[h]
            /\ pc'[h] \notin Busy => req'[h].op # "session"
  PROVE  SInv'
<1>1. SessionTypes
  BY DEF SInv
<1>2. \A h \in Requests, b \in Browsers : Mine(h, b) \/ Mine(h, b)' => pc'[h] = pc[h] /\ req'[h] = req[h]
  BY <1>1, BusyRequest DEF Mine
<1>3. SessionTypes'
  BY <1>1 DEF SessionTypes, SessionsLeft, For
<1>4. OneHolder'
  <2>1. \A s \in Sessions, b \in Browsers : Holds(b, s)' => Holds(b, s)
    BY <1>2 DEF Holds, SessionsLeft, Mine
  <2> QED BY <2>1, HoldersShrink DEF SInv, SessionsLeft
<1>5. \A t \in Tokens : t # NoCookie /\ Valid(t) => Valid(t)'
  BY <1>1, LeftStaysValid
<1>6. \A b \in orderly : Orderly(b)'
  <2> SUFFICES ASSUME NEW b \in orderly PROVE Orderly(b)'
    OBVIOUS
  <2>1. b \in Browsers
    BY <1>1 DEF SessionTypes
  <2> QED BY <1>2, <1>5, <2>1, OtherBrowser DEF SessionsLeft
<1> QED BY <1>3, <1>4, <1>6 DEF SInv

\* A step of the request h of the browser b, after which h works on s and t or
\* is done; sessions may end.  It leaves every other browser as it was.
BrowserStep(h, b, label) ==
    /\ Mine(h, b) \/ pc[h] = "idle"
    /\ pc' = [pc EXCEPT ![h] = label]
    /\ DOMAIN req' = Requests /\ \A g \in Requests \ {h} : req'[g] = req[g]
    /\ IF label \in Busy
         THEN \E s \in {0} \cup Sessions, t \in Tokens : req'[h] = For(b, s, t)
         ELSE req'[h] = [op |-> "none"]
    /\ cookie' \in [Browsers -> Tokens]
    /\ \A c \in Browsers \ {b} : cookie'[c] = cookie[c]
    /\ turn' \in [Sessions -> 0 .. MaxTurn]
    /\ row' \in [Sessions -> {"none", "live", "expired", "deleted"}]
    /\ ended \subseteq ended' /\ ended' \subseteq Sessions
    /\ \A s \in ended' : row'[s] = "deleted"
    /\ \A s \in Sessions :
         /\ row'[s] = "none" => row[s] = "none" /\ turn'[s] = turn[s]
         /\ turn'[s] = turn[s] \/ Holds(b, s)
         /\ Exists(s) => Exists(s)' \/ s \in ended'
    /\ orderly' \subseteq orderly

LEMMA BrowserStepKeeps ==
  ASSUME SInv, NEW h \in Requests, NEW b \in Browsers, NEW label \in Busy \cup {"idle"},
         BrowserStep(h, b, label)
  PROVE  SessionTypes' /\ \A c \in orderly' \ {b} : Orderly(c)'
<1>1. SessionTypes /\ OneHolder /\ BrowserStep(h, b, label)
  BY DEF SInv
<1>2. SessionTypes'
  <2>1. pc' \in [Requests -> Labels]
    BY <1>1 DEF BrowserStep, SessionTypes, Labels, Busy
  <2>2. \A g \in Requests :
          IF pc'[g] \in Busy
            THEN \E c \in Browsers, s \in {0} \cup Sessions, t \in Tokens : req'[g] = For(c, s, t)
            ELSE req'[g].op # "session"
    <3> SUFFICES ASSUME NEW g \in Requests
                 PROVE  IF pc'[g] \in Busy
                          THEN \E c \in Browsers, s \in {0} \cup Sessions, t \in Tokens : req'[g] = For(c, s, t)
                          ELSE req'[g].op # "session"
      OBVIOUS
    <3>1. CASE g # h
      BY <1>1, <3>1 DEF BrowserStep, SessionTypes
    <3>2. CASE g = h
      <4>1. pc'[h] = label
        BY <1>1 DEF BrowserStep, SessionTypes
      <4> QED BY <1>1, <3>2, <4>1 DEF BrowserStep
    <3> QED BY <3>1, <3>2
  <2>3. \A s \in Sessions : row'[s] = "none" => turn'[s] = 0
    BY <1>1 DEF BrowserStep, SessionTypes
  <2>4. orderly' \subseteq Browsers
    BY <1>1 DEF BrowserStep, SessionTypes
  <2> QED BY <1>1, <2>1, <2>2, <2>3, <2>4 DEF BrowserStep, SessionTypes, For
<1>3. ASSUME NEW c \in orderly', c # b
      PROVE  Orderly(c)'
  <2>1. c \in orderly /\ c \in Browsers /\ cookie'[c] = cookie[c]
    BY <1>1, <1>3 DEF BrowserStep, SessionTypes
  <2>2. ~ Mine(h, c) /\ ~ Mine(h, c)'
    <3>1. ~ Mine(h, c)
      BY <1>1, <1>3, BusyRequest DEF BrowserStep, Mine, Busy
    <3>2. ~ Mine(h, c)'
      BY <1>1, <1>3 DEF BrowserStep, Mine, For
    <3> QED BY <3>1, <3>2
  <2>3. \A g \in Requests : Mine(g, c) \/ Mine(g, c)' => pc'[g] = pc[g] /\ req'[g] = req[g]
    <3> SUFFICES ASSUME NEW g \in Requests, g # h PROVE pc'[g] = pc[g] /\ req'[g] = req[g]
      BY <2>2
    <3> QED BY <1>1 DEF BrowserStep, SessionTypes
  <2>4. ASSUME NEW t \in Tokens, t # NoCookie, Holds(c, t[1]), Valid(t)
        PROVE  Valid(t)'
    <3>1. t[1] \in Sessions
      BY <2>4, TokenSession
    <3>2. ~ Holds(b, t[1])
      BY <1>1, <1>3, <2>1, <2>4, <3>1 DEF OneHolder
    <3>3. turn'[t[1]] = turn[t[1]] /\ ended \subseteq ended' /\ (Exists(t[1]) => Exists(t[1])' \/ t[1] \in ended')
      BY <1>1, <3>1, <3>2 DEF BrowserStep
    <3> QED BY <2>4, <3>3, TokenStaysValid
  <2> QED BY <2>1, <2>3, <2>4, OtherBrowser
<1> QED BY <1>2, <1>3

\* A step that moves nothing but what the browser held before.
LEMMA BrowserStepHolds ==
  ASSUME SInv, NEW h \in Requests, NEW b \in Browsers, NEW label \in Busy \cup {"idle"},
         BrowserStep(h, b, label),
         cookie'[b] # NoCookie => Holds(b, cookie'[b][1]),
         label \in Busy => /\ req'[h].session \in Sessions => Holds(b, req'[h].session)
                           /\ req'[h].token # NoCookie => Holds(b, req'[h].token[1])
  PROVE  OneHolder'
<1>1. SessionTypes /\ OneHolder /\ BrowserStep(h, b, label)
  BY DEF SInv
<1>2. ASSUME NEW s \in Sessions, NEW c \in Browsers, Holds(c, s)'
      PROVE  Holds(c, s)
  <2>1. CASE cookie'[c] # NoCookie /\ cookie'[c][1] = s
    BY <1>1, <2>1 DEF BrowserStep, Holds
  <2>2. CASE \E g \in Requests : /\ Mine(g, c)'
                                 /\ \/ req'[g].session = s
                                    \/ req'[g].token # NoCookie /\ req'[g].token[1] = s
    <3>1. PICK g \in Requests : /\ Mine(g, c)'
                                /\ \/ req'[g].session = s
                                   \/ req'[g].token # NoCookie /\ req'[g].token[1] = s
      BY <2>2
    <3>2. CASE g # h
      <4>1. req'[g] = req[g]
        BY <1>1, <3>2 DEF BrowserStep
      <4> QED BY <3>1, <4>1 DEF Mine, Holds
    <3>3. CASE g = h
      <4>1. label \in Busy /\ c = b
        BY <1>1, <3>1, <3>3 DEF BrowserStep, Mine, For
      <4> QED BY <3>1, <3>3, <4>1
    <3> QED BY <3>2, <3>3
  <2> QED BY <1>2, <2>1, <2>2 DEF Holds
<1>3. \A s \in Sessions : row'[s] = "none" => row[s] = "none"
  BY <1>1 DEF BrowserStep
<1> QED BY <1>1, <1>2, <1>3, HoldersShrink

\* Of a browser whose only request the step is about, only what that request
\* leaves it with has to be looked at.
LEMMA OrderlyIf ==
  ASSUME SInv, NEW h \in Requests, NEW b \in Browsers, NEW label \in Busy \cup {"idle"},
         BrowserStep(h, b, label),
         \A g \in Requests : Mine(g, b) => g = h,
         label = "idle" /\ cookie'[b] # NoCookie => Valid(cookie[b])',
         label = "findSession" =>
            req'[h].token = cookie'[b] /\ cookie'[b] # NoCookie /\ Valid(cookie[b])',
         label \in {"rotate", "dropSession"} =>
            cookie'[b] # NoCookie /\ req'[h].session = cookie'[b][1] /\ Valid(cookie[b])',
         label = "answer" /\ req'[h].token # NoCookie => Valid(req[h].token)'
  PROVE  Orderly(b)'
<1>1. pc'[h] = label
  BY DEF BrowserStep, SInv, SessionTypes
<1>2. \A g \in Requests : Mine(g, b)' => g = h
  <2> SUFFICES ASSUME NEW g \in Requests, Mine(g, b)', g # h PROVE FALSE
    OBVIOUS
  <2>1. req'[g] = req[g]
    BY DEF BrowserStep
  <2> QED BY <2>1 DEF Mine
<1>3. label \in Busy => InFlight(b)'
  BY DEF BrowserStep, InFlight, For
<1>4. cookie'[b] # NoCookie /\ ~ InFlight(b)' => Valid(cookie[b])'
  BY <1>3
<1>5. ASSUME NEW g \in Requests, Mine(g, b)'
      PROVE  /\ pc'[g] = "findSession" =>
                  req'[g].token = cookie'[b] /\ cookie'[b] # NoCookie /\ Valid(cookie[b])'
             /\ pc'[g] \in {"rotate", "dropSession"} =>
                  cookie'[b] # NoCookie /\ req'[g].session = cookie'[b][1] /\ Valid(cookie[b])'
             /\ pc'[g] = "answer" /\ req'[g].token # NoCookie => Valid(req[g].token)'
  <2>1. g = h
    BY <1>2, <1>5
  <2>2. Valid(req[g].token)' <=> Valid(req[h].token)'
    BY <2>1
  <2> QED BY <1>1, <2>1, <2>2
<1> QED BY <1>2, <1>4, <1>5 DEF Orderly

LEMMA BrowserStepDone ==
  ASSUME SInv, NEW h \in Requests, NEW b \in Browsers, NEW label \in Busy \cup {"idle"},
         BrowserStep(h, b, label), OneHolder', b \in orderly' => Orderly(b)'
  PROVE  SInv'
<1>1. SessionTypes' /\ \A c \in orderly' \ {b} : Orderly(c)'
  BY BrowserStepKeeps
<1> QED BY <1>1 DEF SInv

\* A browser sends a request.
LEMMA RequestKeepsSInv ==
  ASSUME SInv, NEW h \in Requests, NEW b \in Browsers, Login(h, b) \/ Refresh(h, b) \/ Logout(h, b)
  PROVE  SInv'
<1>1. SessionTypes /\ cookie[b] \in Tokens /\ (cookie[b] # NoCookie => cookie[b][1] \in Sessions)
  BY TokenSession DEF SInv, SessionTypes
<1>2. PICK label \in {"createSession", "findSession", "answer"}, t \in {NoCookie, cookie[b]} :
        /\ BrowserRequest(h, b, label, For(b, 0, t))
        /\ label = "findSession" <=> t = cookie[b] /\ cookie[b] # NoCookie
        /\ label = "findSession" => t = cookie[b]
        /\ label # "answer" => UNCHANGED <<row, ended>>
  BY DEF Login, Refresh, Logout
<1>3. /\ pc[h] = "idle" /\ pc' = [pc EXCEPT ![h] = label] /\ req' = [req EXCEPT ![h] = For(b, 0, t)]
      /\ UNCHANGED <<turn, cookie>>
      /\ orderly' = IF InFlight(b) THEN orderly \ {b} ELSE orderly
  BY <1>2 DEF BrowserRequest, Begin
<1>4. /\ row' \in [Sessions -> {"none", "live", "expired", "deleted"}]
      /\ ended \subseteq ended' /\ ended' \subseteq Sessions
      /\ \A s \in ended' : row'[s] = "deleted"
      /\ \A s \in Sessions : /\ row'[s] = "none" => row[s] = "none"
                             /\ Exists(s) => Exists(s)' \/ s \in ended'
  <2>1. CASE Login(h, b) \/ Refresh(h, b)
    <3>1. UNCHANGED <<row, ended>>
      BY <2>1 DEF Login, Refresh
    <3> QED BY <1>1, <3>1 DEF SessionTypes, Exists
  <2>2. CASE Logout(h, b)
    BY <1>1, <2>2 DEF Logout, SessionTypes, Accepts, Exists
  <2> QED BY <2>1, <2>2
<1>5. req'[h] = For(b, 0, t) /\ DOMAIN req' = Requests /\ \A g \in Requests \ {h} : req'[g] = req[g]
  BY <1>1, <1>3 DEF SessionTypes
<1>6. BrowserStep(h, b, label)
  BY <1>1, <1>2, <1>3, <1>4, <1>5 DEF BrowserStep, SessionTypes, Busy, Tokens
<1>7. req'[h].session = 0 /\ req'[h].token = t
  BY <1>5 DEF For
<1>8. OneHolder'
  <2>1. cookie'[b] # NoCookie => Holds(b, cookie'[b][1])
    BY <1>3 DEF Holds
  <2>2. t # NoCookie => Holds(b, t[1])
    BY <1>2 DEF Holds
  <2>3. 0 \notin Sessions
    BY DEF Sessions
  <2>4. label \in Busy \cup {"idle"}
    BY DEF Busy
  <2> QED BY <1>6, <1>7, <2>1, <2>2, <2>3, <2>4, BrowserStepHolds
<1>9. ASSUME b \in orderly' PROVE Orderly(b)'
  <2>1. b \in orderly /\ ~ InFlight(b)
    BY <1>3, <1>9
  <2>2. \A g \in Requests : ~ Mine(g, b)
    BY <2>1 DEF InFlight, Mine
  <2>3. label = "findSession" =>
          t = cookie[b] /\ cookie[b] # NoCookie /\ Valid(cookie[b])'
    <3> SUFFICES ASSUME label = "findSession" PROVE Valid(cookie[b])' /\ t = cookie[b] /\ cookie[b] # NoCookie
      OBVIOUS
    <3>1. Valid(cookie[b]) /\ t = cookie[b] /\ cookie[b] # NoCookie
      BY <1>2, <2>1 DEF SInv, Orderly
    <3>2. UNCHANGED <<row, turn, cookie, ended>>
      BY <1>2, <1>3
    <3> QED BY <3>1, <3>2 DEF Valid, Accepts, Exists
  <2>4. label = "answer" => t = NoCookie
    BY <1>2
  <2> QED BY <1>3, <1>6, <1>7, <2>2, <2>3, <2>4, OrderlyIf DEF Busy
<1> QED BY <1>6, <1>8, <1>9, BrowserStepDone DEF Busy


\* What is known of a request under way, with the browser it is of.
LEMMA RequestUnderWay ==
  ASSUME SInv, NEW h \in Requests, pc[h] \in Busy
  PROVE  \E b \in Browsers, s \in {0} \cup Sessions, t \in Tokens :
            /\ req[h] = For(b, s, t)
            /\ Mine(h, b) /\ req[h].browser = b /\ req[h].session = s /\ req[h].token = t
            /\ cookie[b] \in Tokens
            /\ cookie[b] # NoCookie => Holds(b, cookie[b][1])
            /\ s \in Sessions => Holds(b, s)
            /\ t # NoCookie => Holds(b, t[1]) /\ t[1] \in Sessions
            /\ b \in orderly => Orderly(b) /\ \A g \in Requests : Mine(g, b) => g = h
<1>1. SessionTypes
  BY DEF SInv
<1>2. PICK b \in Browsers, s \in {0} \cup Sessions, t \in Tokens : req[h] = For(b, s, t)
  BY <1>1 DEF SessionTypes
<1>3. Mine(h, b) /\ req[h].browser = b /\ req[h].session = s /\ req[h].token = t
  BY <1>2 DEF For, Mine
<1>4. /\ cookie[b] \in Tokens
      /\ cookie[b] # NoCookie => Holds(b, cookie[b][1])
      /\ s \in Sessions => Holds(b, s)
      /\ t # NoCookie => Holds(b, t[1]) /\ t[1] \in Sessions
  BY <1>1, <1>3, TokenSession DEF SessionTypes, Holds
<1>5. b \in orderly => Orderly(b) /\ \A g \in Requests : Mine(g, b) => g = h
  BY <1>3 DEF SInv, Orderly
<1> QED BY <1>2, <1>3, <1>4, <1>5

\* A session is numbered when it is created: nobody had to do with it before.
LEMMA CreateSessionKeepsSInv ==
  ASSUME SInv, NEW h \in Requests, CreateSession(h)
  PROVE  SInv'
<1>1. SessionTypes /\ OneHolder /\ pc[h] \in Busy
  BY DEF SInv, CreateSession, Busy
<1>2. PICK b \in Browsers, s0 \in {0} \cup Sessions, t0 \in Tokens :
        /\ req[h] = For(b, s0, t0)
        /\ Mine(h, b) /\ req[h].browser = b
        /\ cookie[b] # NoCookie => Holds(b, cookie[b][1])
        /\ b \in orderly => Orderly(b) /\ \A g \in Requests : Mine(g, b) => g = h
  BY <1>1, RequestUnderWay
<1>3. PICK s \in Sessions : /\ row[s] = "none" /\ row' = [row EXCEPT ![s] = "live"]
                            /\ req' = [req EXCEPT ![h] = For(b, s, <<s, 0>>)]
  BY <1>2 DEF CreateSession
<1>4. /\ pc' = [pc EXCEPT ![h] = "answer"] /\ UNCHANGED <<turn, cookie, orderly, ended>>
      /\ DOMAIN req' = Requests /\ req'[h] = For(b, s, <<s, 0>>)
      /\ \A g \in Requests \ {h} : req'[g] = req[g]
  BY <1>1, <1>3 DEF CreateSession, history, SessionTypes
<1>5. turn[s] = 0 /\ s \notin ended /\ <<s, 0>> \in Tokens
  BY <1>1, <1>3, AuthAssumption DEF SessionTypes, Tokens
<1>6. BrowserStep(h, b, "answer")
  BY <1>1, <1>2, <1>3, <1>4, <1>5 DEF BrowserStep, SessionTypes, Exists, Busy
<1>7. req'[h].op = "session" /\ req'[h].browser = b /\ req'[h].session = s /\ req'[h].token = <<s, 0>>
  BY <1>4 DEF For
<1>8. OneHolder'
  <2>1. ASSUME NEW x \in Sessions, NEW c \in Browsers, Holds(c, x)'
        PROVE  Holds(c, x) \/ (x = s /\ c = b)
    <3>1. CASE cookie'[c] # NoCookie /\ cookie'[c][1] = x
      BY <1>4, <3>1 DEF Holds
    <3>2. CASE \E g \in Requests : /\ Mine(g, c)'
                                   /\ \/ req'[g].session = x
                                      \/ req'[g].token # NoCookie /\ req'[g].token[1] = x
      <4>1. PICK g \in Requests : /\ Mine(g, c)'
                                  /\ \/ req'[g].session = x
                                     \/ req'[g].token # NoCookie /\ req'[g].token[1] = x
        BY <3>2
      <4>2. CASE g = h
        BY <1>7, <4>1, <4>2 DEF Mine
      <4>3. CASE g # h
        BY <1>4, <4>1, <4>3 DEF Mine, Holds
      <4> QED BY <4>2, <4>3
    <3> QED BY <2>1, <3>1, <3>2 DEF Holds
  <2>2. \A c \in Browsers : ~ Holds(c, s)
    BY <1>1, <1>3 DEF OneHolder
  <2>3. \A x \in Sessions : row'[x] = "none" => row[x] = "none" /\ x # s
    BY <1>1, <1>3 DEF SessionTypes
  <2>4. ASSUME NEW x \in Sessions
        PROVE  /\ \A c, d \in Browsers : Holds(c, x)' /\ Holds(d, x)' => c = d
               /\ row'[x] = "none" => \A c \in Browsers : ~ Holds(c, x)'
    BY <1>1, <2>1, <2>2, <2>3 DEF OneHolder
  <2> QED BY <2>4 DEF OneHolder
<1>9. ASSUME b \in orderly' PROVE Orderly(b)'
  <2>1. Valid(req[h].token)'
    BY <1>1, <1>3, <1>4, <1>5, <1>7 DEF Valid, Accepts, Exists, SessionTypes
  <2>2. \A g \in Requests : Mine(g, b) => g = h
    BY <1>2, <1>4, <1>9
  <2> QED BY <1>6, <2>1, <2>2, OrderlyIf DEF Busy
<1> QED BY <1>6, <1>8, <1>9, BrowserStepDone DEF Busy


\* The session a browser's token names, which that browser alone has to do with.
LEMMA FindSessionKeepsSInv ==
  ASSUME SInv, NEW h \in Requests, FindSession(h) \/ SessionNotFound(h)
  PROVE  SInv'
<1>1. SessionTypes /\ OneHolder /\ pc[h] \in Busy
  BY DEF SInv, FindSession, SessionNotFound, Busy
<1>2. PICK b \in Browsers, s0 \in {0} \cup Sessions, t \in Tokens :
        /\ req[h] = For(b, s0, t)
        /\ Mine(h, b) /\ req[h].browser = b /\ req[h].token = t
        /\ cookie[b] \in Tokens
        /\ cookie[b] # NoCookie => Holds(b, cookie[b][1])
        /\ t # NoCookie => Holds(b, t[1]) /\ t[1] \in Sessions
        /\ b \in orderly => Orderly(b) /\ \A g \in Requests : Mine(g, b) => g = h
  BY <1>1, RequestUnderWay
<1>3. UNCHANGED <<row, turn, cookie, orderly, ended>> /\ pc[h] = "findSession"
  BY DEF FindSession, SessionNotFound, session, history
<1>4. b \in orderly => t = cookie[b] /\ cookie[b] # NoCookie /\ Valid(cookie[b])
  BY <1>2, <1>3 DEF Orderly
<1>5. Valid(cookie[b]) => Valid(cookie[b])'
  BY <1>3 DEF Valid, Accepts, Exists
<1>6. CASE SessionNotFound(h)
  <2>1. pc' = [pc EXCEPT ![h] = "idle"] /\ req' = [req EXCEPT ![h] = [op |-> "none"]]
    BY <1>6 DEF SessionNotFound, Done
  <2>2. DOMAIN req' = Requests /\ req'[h] = [op |-> "none"] /\ \A g \in Requests \ {h} : req'[g] = req[g]
    BY <1>1, <2>1 DEF SessionTypes
  <2>3. BrowserStep(h, b, "idle")
    BY <1>1, <1>2, <1>3, <2>1, <2>2 DEF BrowserStep, SessionTypes, Exists, Busy
  <2>4. OneHolder'
    BY <1>2, <1>3, <2>3, BrowserStepHolds DEF Busy
  <2>5. b \in orderly' => Orderly(b)'
    BY <1>2, <1>3, <1>4, <1>5, <2>3, OrderlyIf DEF Busy
  <2> QED BY <2>3, <2>4, <2>5, BrowserStepDone
<1>7. CASE FindSession(h)
  <2>1. PICK s \in Sessions :
          /\ Accepts(s, t)
          /\ pc' = [pc EXCEPT ![h] = IF row[s] = "live" THEN "rotate" ELSE "dropSession"]
          /\ req' = [req EXCEPT ![h] = For(b, s, NoCookie)]
    BY <1>2, <1>7 DEF FindSession
  <2>2. PICK label \in {"rotate", "dropSession"} : pc' = [pc EXCEPT ![h] = label]
    BY <2>1
  <2>3. t # NoCookie /\ t[1] = s /\ NoCookie \in Tokens
    BY <2>1 DEF Accepts, NoCookie, Tokens
  <2>4. DOMAIN req' = Requests /\ req'[h] = For(b, s, NoCookie) /\ \A g \in Requests \ {h} : req'[g] = req[g]
    BY <1>1, <2>1 DEF SessionTypes
  <2>5. req'[h].session = s /\ req'[h].token = NoCookie
    BY <2>4 DEF For
  <2>6. BrowserStep(h, b, label)
    <3>1. label \in Busy /\ \E x \in {0} \cup Sessions, y \in Tokens : req'[h] = For(b, x, y)
      BY <2>3, <2>4 DEF Busy
    <3> QED BY <1>1, <1>2, <1>3, <2>2, <2>4, <3>1 DEF BrowserStep, SessionTypes, Exists
  <2>7. OneHolder'
    BY <1>2, <1>3, <2>2, <2>3, <2>5, <2>6, BrowserStepHolds DEF Busy
  <2>8. b \in orderly' => Orderly(b)'
    BY <1>2, <1>3, <1>4, <1>5, <2>2, <2>3, <2>5, <2>6, OrderlyIf DEF Busy
  <2> QED BY <2>2, <2>6, <2>7, <2>8, BrowserStepDone DEF Busy
<1> QED BY <1>6, <1>7

\* The new token goes to the browser that held the old one.
LEMMA RotateKeepsSInv ==
  ASSUME SInv, NEW h \in Requests, Rotate(h)
  PROVE  SInv'
<1>1. SessionTypes /\ OneHolder /\ pc[h] \in Busy
  BY DEF SInv, Rotate, Busy
<1>2. PICK b \in Browsers, s \in {0} \cup Sessions, t \in Tokens :
        /\ req[h] = For(b, s, t)
        /\ Mine(h, b) /\ req[h].browser = b /\ req[h].session = s
        /\ cookie[b] # NoCookie => Holds(b, cookie[b][1])
        /\ s \in Sessions => Holds(b, s)
        /\ b \in orderly => Orderly(b) /\ \A g \in Requests : Mine(g, b) => g = h
  BY <1>1, RequestUnderWay
<1>3. /\ s \in Sessions /\ row[s] \in {"live", "expired"} /\ turn[s] < MaxTurn
      /\ row' = [row EXCEPT ![s] = "live"] /\ turn' = [turn EXCEPT ![s] = turn[s] + 1]
      /\ pc' = [pc EXCEPT ![h] = "answer"]
      /\ req' = [req EXCEPT ![h].token = <<s, turn[s] + 1>>]
      /\ UNCHANGED <<cookie, orderly, ended>>
  BY <1>2 DEF Rotate, Exists, history
<1>4. turn[s] \in 0 .. MaxTurn /\ turn[s] + 1 \in 0 .. MaxTurn /\ <<s, turn[s] + 1>> \in Tokens
  BY <1>1, <1>3, AuthAssumption DEF SessionTypes, Tokens
<1>5. /\ DOMAIN req' = Requests /\ req'[h] = For(b, s, <<s, turn[s] + 1>>)
      /\ \A g \in Requests \ {h} : req'[g] = req[g]
  BY <1>1, <1>2, <1>3 DEF SessionTypes, For
<1>6. req'[h].session = s /\ req'[h].token = <<s, turn[s] + 1>>
  BY <1>5 DEF For
<1>7. s \notin ended
  BY <1>1, <1>3 DEF SessionTypes
<1>8. BrowserStep(h, b, "answer")
  BY <1>1, <1>2, <1>3, <1>4, <1>5, <1>7 DEF BrowserStep, SessionTypes, Exists, Busy
<1>9. OneHolder'
  BY <1>2, <1>3, <1>6, <1>8, BrowserStepHolds DEF Busy
<1>10. ASSUME b \in orderly' PROVE Orderly(b)'
  <2>1. Valid(req[h].token)'
    BY <1>1, <1>3, <1>6 DEF Valid, Accepts, Exists, SessionTypes
  <2> QED BY <1>2, <1>3, <1>8, <1>10, <2>1, OrderlyIf DEF Busy
<1> QED BY <1>8, <1>9, <1>10, BrowserStepDone DEF Busy

LEMMA DropSessionKeepsSInv ==
  ASSUME SInv, NEW h \in Requests, DropSession(h)
  PROVE  SInv'
<1>1. SessionTypes /\ OneHolder /\ pc[h] \in Busy
  BY DEF SInv, DropSession, Busy
<1>2. PICK b \in Browsers, s \in {0} \cup Sessions, t \in Tokens :
        /\ req[h] = For(b, s, t)
        /\ Mine(h, b) /\ req[h].browser = b /\ req[h].session = s
        /\ cookie[b] # NoCookie => Holds(b, cookie[b][1])
        /\ b \in orderly => Orderly(b) /\ \A g \in Requests : Mine(g, b) => g = h
  BY <1>1, RequestUnderWay
<1>3. /\ pc[h] = "dropSession" /\ s \in Sessions /\ row[s] \in {"live", "expired"}
      /\ row' = [row EXCEPT ![s] = "deleted"] /\ ended' = ended \cup {s}
      /\ pc' = [pc EXCEPT ![h] = "idle"] /\ req' = [req EXCEPT ![h] = [op |-> "none"]]
      /\ UNCHANGED <<turn, cookie, orderly>>
  BY <1>2 DEF DropSession, Exists, Done
<1>4. DOMAIN req' = Requests /\ req'[h] = [op |-> "none"] /\ \A g \in Requests \ {h} : req'[g] = req[g]
  BY <1>1, <1>3 DEF SessionTypes
<1>5. BrowserStep(h, b, "idle")
  BY <1>1, <1>2, <1>3, <1>4 DEF BrowserStep, SessionTypes, Exists, Busy
<1>6. OneHolder'
  BY <1>2, <1>3, <1>5, BrowserStepHolds DEF Busy
<1>7. ASSUME b \in orderly' PROVE Orderly(b)'
  <2>1. cookie[b] # NoCookie /\ cookie[b][1] = s
    BY <1>2, <1>3, <1>7 DEF Orderly
  <2>2. Valid(cookie[b])'
    BY <1>3, <2>1 DEF Valid
  <2> QED BY <1>2, <1>3, <1>5, <1>7, <2>2, OrderlyIf DEF Busy
<1> QED BY <1>5, <1>6, <1>7, BrowserStepDone

LEMMA AnswerKeepsSInv ==
  ASSUME SInv, NEW h \in Requests, Answer(h)
  PROVE  SInv'
<1>1. SessionTypes /\ OneHolder /\ pc[h] \in Busy
  BY DEF SInv, Answer, Busy
<1>2. PICK b \in Browsers, s \in {0} \cup Sessions, t \in Tokens :
        /\ req[h] = For(b, s, t)
        /\ Mine(h, b) /\ req[h].browser = b /\ req[h].token = t
        /\ t # NoCookie => Holds(b, t[1])
        /\ b \in orderly => Orderly(b) /\ \A g \in Requests : Mine(g, b) => g = h
  BY <1>1, RequestUnderWay
<1>3. /\ pc[h] = "answer" /\ cookie' = [cookie EXCEPT ![b] = t]
      /\ pc' = [pc EXCEPT ![h] = "idle"] /\ req' = [req EXCEPT ![h] = [op |-> "none"]]
      /\ UNCHANGED <<row, turn, orderly, ended>>
  BY <1>2 DEF Answer, Done, history
<1>4. DOMAIN req' = Requests /\ req'[h] = [op |-> "none"] /\ \A g \in Requests \ {h} : req'[g] = req[g]
  BY <1>1, <1>3 DEF SessionTypes
<1>5. cookie'[b] = t
  BY <1>1, <1>3 DEF SessionTypes
<1>6. BrowserStep(h, b, "idle")
  BY <1>1, <1>2, <1>3, <1>4 DEF BrowserStep, SessionTypes, Exists, Busy
<1>7. OneHolder'
  BY <1>2, <1>5, <1>6, BrowserStepHolds DEF Busy
<1>8. ASSUME b \in orderly' PROVE Orderly(b)'
  <2>1. t # NoCookie => Valid(t)
    BY <1>2, <1>3, <1>8 DEF Orderly
  <2>2. t # NoCookie => Valid(cookie[b])'
    BY <1>3, <1>5, <2>1 DEF Valid, Accepts, Exists
  <2> QED BY <1>2, <1>3, <1>5, <1>6, <1>8, <2>2, OrderlyIf DEF Busy
<1> QED BY <1>6, <1>7, <1>8, BrowserStepDone

\* A browser whose request is cut off is not orderly any more.
LEMMA AbortKeepsSInv ==
  ASSUME SInv, NEW h \in Requests, Abort(h)
  PROVE  SInv'
<1>1. SessionTypes
  BY DEF SInv
<1>2. /\ pc' = [pc EXCEPT ![h] = "idle"] /\ req' = [req EXCEPT ![h] = [op |-> "none"]]
      /\ orderly' = IF req[h].op = "session" THEN orderly \ {req[h].browser} ELSE orderly
      /\ UNCHANGED <<row, turn, cookie, ended>>
  BY DEF Abort, Done, session
<1>3. DOMAIN req' = Requests /\ req'[h] = [op |-> "none"] /\ \A g \in Requests \ {h} : req'[g] = req[g]
  BY <1>1, <1>2 DEF SessionTypes
<1>4. CASE pc[h] \in Busy
  <2>1. PICK b \in Browsers, s \in {0} \cup Sessions, t \in Tokens :
          /\ req[h] = For(b, s, t)
          /\ Mine(h, b) /\ req[h].browser = b
          /\ cookie[b] # NoCookie => Holds(b, cookie[b][1])
    BY <1>4, RequestUnderWay
  <2>2. orderly' = orderly \ {b}
    BY <1>2, <2>1 DEF Mine
  <2>3. BrowserStep(h, b, "idle")
    BY <1>1, <1>2, <1>3, <2>1, <2>2 DEF BrowserStep, SessionTypes, Exists, Busy
  <2>4. OneHolder'
    BY <1>2, <2>1, <2>3, BrowserStepHolds DEF Busy
  <2> QED BY <2>2, <2>3, <2>4, BrowserStepDone
<1>5. CASE pc[h] \notin Busy
  <2>1. req[h].op # "session"
    BY <1>1, <1>5, BusyRequest
  <2>2. SessionsLeft /\ orderly' = orderly
    BY <1>1, <1>2, <2>1 DEF SessionsLeft, SessionTypes, Exists
  <2>3. pc' \in [Requests -> Labels]
    BY <1>1, <1>2 DEF SessionTypes, Labels
  <2>4. \A g \in Requests :
          /\ pc[g] \in Busy \/ pc'[g] \in Busy => pc'[g] = pc[g] /\ req'[g] = req[g]
          /\ pc'[g] \notin Busy => req'[g].op # "session"
    <3> SUFFICES ASSUME NEW g \in Requests
                 PROVE  /\ pc[g] \in Busy \/ pc'[g] \in Busy => pc'[g] = pc[g] /\ req'[g] = req[g]
                        /\ pc'[g] \notin Busy => req'[g].op # "session"
      OBVIOUS
    <3>1. CASE g = h
      BY <1>1, <1>2, <1>3, <1>5, <3>1 DEF SessionTypes, Busy
    <3>2. CASE g # h
      BY <1>1, <1>2, <1>3, <3>2 DEF SessionTypes
    <3> QED BY <3>1, <3>2
  <2> QED BY <1>3, <2>2, <2>3, <2>4, OthersKeepSInv
<1> QED BY <1>4, <1>5


\* What is not done for a browser leaves the sessions, or ends them.
LEMMA NotForABrowser ==
  ASSUME SInv, NEW h \in Requests,
         LinkStep(h) \/ (\E l \in mailed : ValidateToken(h, l)) \/ SetPassword(h) \/ ResetPassword(h)
  PROVE  SInv'
<1>1. SessionTypes
  BY DEF SInv
<1>2. /\ pc[h] \notin Busy /\ orderly' = orderly
      /\ \E label \in Labels \ Busy : pc' = [pc EXCEPT ![h] = label]
      /\ req' = req \/ \E what : what.op # "session" /\ req' = [req EXCEPT ![h] = what]
  <2>1. ASSUME NEW label, NEW kind, LinkRequest(h, label, kind), label \in Labels \ Busy
        PROVE  /\ pc[h] = "idle" /\ orderly' = orderly
               /\ \E lb \in Labels \ Busy : pc' = [pc EXCEPT ![h] = lb]
               /\ \E what : what.op # "session" /\ req' = [req EXCEPT ![h] = what]
    BY <2>1 DEF LinkRequest, Begin, history
  <2>2. CASE Register(h) \/ Resend(h) \/ Forgot(h)
    BY <2>1, <2>2 DEF Register, Resend, Forgot, Labels, Busy
  <2>3. CASE CreateUser(h) \/ Invalidate(h)
    BY <2>3 DEF CreateUser, Invalidate, Proceed, history, Labels, Busy
  <2>4. CASE CreateLink(h) \/ SendMail(h)
    BY <2>4 DEF CreateLink, SendMail, Done, history, Labels, Busy
  <2>5. CASE \E l \in mailed : ValidateToken(h, l)
    BY <2>5 DEF ValidateToken, Begin, history, Labels, Busy
  <2>6. CASE SetPassword(h) \/ ResetPassword(h)
    BY <2>6 DEF SetPassword, ResetPassword, Done, history, Labels, Busy
  <2> QED BY <2>2, <2>3, <2>4, <2>5, <2>6 DEF LinkStep, Busy
<1>3. SessionsLeft
  <2>1. CASE ResetPassword(h)
    BY <1>1, <2>1 DEF ResetPassword, SessionsLeft, SessionTypes, Exists
  <2>2. CASE UNCHANGED <<session, ended>>
    BY <1>1, <2>2 DEF session, SessionsLeft, SessionTypes, Exists
  <2> QED BY <2>1, <2>2 DEF LinkStep, Register, Resend, Forgot, LinkRequest, CreateUser, Invalidate,
                            CreateLink, SendMail, ValidateToken, SetPassword, history
<1>4. pc' \in [Requests -> Labels] /\ DOMAIN req' = Requests
  BY <1>1, <1>2 DEF SessionTypes
<1>5. \A g \in Requests :
        /\ pc[g] \in Busy \/ pc'[g] \in Busy => pc'[g] = pc[g] /\ req'[g] = req[g]
        /\ pc'[g] \notin Busy => req'[g].op # "session"
  <2> SUFFICES ASSUME NEW g \in Requests
               PROVE  /\ pc[g] \in Busy \/ pc'[g] \in Busy => pc'[g] = pc[g] /\ req'[g] = req[g]
                      /\ pc'[g] \notin Busy => req'[g].op # "session"
    OBVIOUS
  <2>1. CASE g = h
    BY <1>1, <1>2, <2>1 DEF SessionTypes
  <2>2. CASE g # h
    BY <1>1, <1>2, <2>2 DEF SessionTypes
  <2> QED BY <2>1, <2>2
<1> QED BY <1>2, <1>3, <1>4, <1>5, OthersKeepSInv

LEMMA TimeKeepsSInv ==
  ASSUME SInv, Time \/ UNCHANGED vars
  PROVE  SInv'
<1>1. SessionTypes /\ UNCHANGED <<pc, req, orderly>>
  BY DEF SInv, Time, LinkExpires, SessionExpires, request, history, vars
<1>2. SessionsLeft
  <2>1. CASE \E s \in Sessions : SessionExpires(s)
    BY <1>1, <2>1 DEF SessionExpires, history, SessionsLeft, SessionTypes, Exists
  <2>2. CASE UNCHANGED <<session, ended>>
    BY <1>1, <2>2 DEF session, SessionsLeft, SessionTypes, Exists
  <2> QED BY <2>1, <2>2 DEF Time, LinkExpires, vars, history
<1>3. /\ pc' \in [Requests -> Labels] /\ DOMAIN req' = Requests
      /\ \A g \in Requests : pc'[g] \notin Busy => req'[g].op # "session"
  BY <1>1 DEF SessionTypes
<1> QED BY <1>1, <1>2, <1>3, OthersKeepSInv

LEMMA InitSInv == Init => SInv
<1> SUFFICES ASSUME Init PROVE SInv
  OBVIOUS
<1>1. SessionTypes
  BY AuthAssumption DEF Init, SessionTypes, Tokens, Labels, Busy
<1>2. \A h \in Requests, b \in Browsers : ~ Mine(h, b)
  BY DEF Init, Mine
<1>3. \A b \in Browsers : cookie[b] = NoCookie
  BY DEF Init
<1>4. OneHolder
  BY <1>2, <1>3 DEF OneHolder, Holds
<1>5. \A b \in orderly : Orderly(b)
  BY <1>1, <1>2, <1>3 DEF Orderly, SessionTypes
<1> QED BY <1>1, <1>4, <1>5 DEF SInv

LEMMA NextKeepsSInv == SInv /\ [Next]_vars => SInv'
<1> SUFFICES ASSUME SInv, [Next]_vars PROVE SInv'
  OBVIOUS
<1>1. CASE Time \/ UNCHANGED vars
  BY <1>1, TimeKeepsSInv
<1>2. ASSUME NEW h \in Requests, LinkStep(h) \/ PasswordStep(h) PROVE SInv'
  BY <1>2, NotForABrowser DEF PasswordStep
<1>3. ASSUME NEW h \in Requests, SessionStep(h) PROVE SInv'
  BY <1>3, RequestKeepsSInv, CreateSessionKeepsSInv, FindSessionKeepsSInv, RotateKeepsSInv,
     DropSessionKeepsSInv, AnswerKeepsSInv DEF SessionStep
<1>4. ASSUME NEW h \in Requests, Abort(h) PROVE SInv'
  BY <1>4, AbortKeepsSInv
<1> QED BY <1>1, <1>2, <1>3, <1>4 DEF Next

\* StaysSignedIn, for any number of browsers, requests in flight and sessions: a
\* browser that sends one request at a time and gets every answer has in its
\* cookie the token its session accepts, until auth.service.ts ends the session.
THEOREM OrderlyBrowsersStaySignedIn == Spec => []StaysSignedIn
<1>1. SInv => StaysSignedIn
  BY DEF SInv, Orderly, StaysSignedIn, Valid
<1> QED BY <1>1, InitSInv, NextKeepsSInv, PTL DEF Spec
=============================================================================
