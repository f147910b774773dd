-------------------------- MODULE BrowserTabProofs --------------------------
(***************************************************************************)
(* The session of a browser tab, and the metrics page in it, for any       *)
(* accounts, presets, ranges and times.                                    *)
(*                                                                         *)
(* That the tab knows the session holds by the order of its requests: none *)
(* is under way while the page loads; a login starts only from a tab that  *)
(* is signed out, a logout only from one that is signed in; so the cookie  *)
(* differs from what the tab believes only between the server's handling   *)
(* and its answer. Whose permissions it shows follows from that. At the end *)
(* both are taken to the tab that has them side by side.                   *)
(***************************************************************************)
EXTENDS MCBrowserTab, FiniteSetTheorems, TLAPS

NoLogouts == \A i \in Presses : logouts[i] = "none"

\* SessionTypeOK, and what it needs of the requests.
TypeInv ==
    /\ SessionTypeOK
    /\ login.stage # "none" => login.who \in Accounts /\ status /\ start.stage = "over"
    /\ ~NoLogouts => status /\ start.stage = "over"
    /\ status => enabled
    /\ start.who # Nobody => enabled
    /\ user.authenticated => status /\ start.stage = "over"
    /\ IsFiniteSet(past.who)

\* What an undisturbed tab knows, by the request that is under way.
Known ==
    /\ start.stage = "asked" => start.who = cookie /\ past.who = {}
    /\ \A i, j \in Presses : logouts[i] # "none" /\ logouts[j] # "none" => i = j
    /\ login.stage # "none" => ~user.authenticated /\ NoLogouts
    /\ ~NoLogouts => user.authenticated
    /\ start.stage = "over" /\ status /\ login.stage # "done"
       /\ (\A i \in Presses : logouts[i] # "done") => user.who = cookie
    /\ login.stage = "done" => cookie = login.who
    /\ (\E i \in Presses : logouts[i] = "done") => cookie = Nobody

\* Whose permissions there can be under a key.
MayOwn(k) == IF k = NoEmail THEN past.who \cup {Nobody} ELSE {k, Nobody}

Mine ==
    /\ user.authenticated => user.who \in past.who /\ user.email \in {user.who, NoEmail}
    /\ \A k \in Keys : /\ perms[k].data \in MayOwn(k) \cup {NoData}
                       /\ perms[k].asked => perms[k].as \in MayOwn(k)

SessionInv == TypeInv /\ (~past.disturbed => Known /\ Mine)

-----------------------------------------------------------------------------
LEMMA DistinctNames ==
    /\ Nobody # NoEmail /\ Nobody # NoData /\ NoEmail # NoData
    /\ Nobody \notin Accounts /\ NoEmail \notin Accounts /\ NoData \notin Accounts
BY SessionAssumption

User == [authenticated : BOOLEAN, who : Owners, email : Keys]

LEMMA SomeUser ==
    ASSUME NEW a \in Accounts, NEW e \in Keys,
           NEW u, u = [authenticated |-> TRUE, who |-> a, email |-> e]
    PROVE  u \in User /\ u.authenticated /\ u.who = a /\ u.email = e
<1>1. a \in Owners
    BY DEF Owners
<1> QED BY <1>1, Zenon DEF User

LEMMA NoUser ==
    ASSUME NEW u, u = SignedOut
    PROVE  u \in User /\ ~u.authenticated /\ u.who = Nobody /\ u.email = NoEmail
<1>1. Nobody \in Owners /\ NoEmail \in Keys
    BY DEF Owners, Keys
<1> QED BY <1>1, Zenon DEF User, SignedOut

LEMMA NoPermsType == NoPerms \in [data : Owners \cup {NoData}, asked : BOOLEAN, as : Owners]
BY DEF NoPerms, Owners

\* A set with one member at most has no two.
LEMMA OneMember ==
    ASSUME NEW S, IsFiniteSet(S), Cardinality(S) <= 1, NEW a \in S, NEW b \in S
    PROVE  a = b
<1>1. SUFFICES ASSUME a # b PROVE FALSE
    OBVIOUS
<1>2. IsFiniteSet({b}) /\ Cardinality({b}) = 1
    BY FS_Singleton
<1>3. Cardinality({b} \cup {a}) = 2 /\ {b} \cup {a} \subseteq S
    BY <1>1, <1>2, FS_AddElement
<1>4. Cardinality({b} \cup {a}) <= Cardinality(S)
    BY <1>3, FS_Subset
<1> QED BY <1>3, <1>4, FS_CardinalityType

LEMMA MoreMembers ==
    ASSUME NEW S, IsFiniteSet(S), NEW a PROVE IsFiniteSet(S \cup {a}) /\ IsFiniteSet({a})
BY FS_AddElement, FS_Singleton

LEMMA NoMembers == IsFiniteSet({})
BY FS_EmptySet

-----------------------------------------------------------------------------
(* The page is loaded. *)

LEMMA SessionInitInv == SessionInit => SessionInv
<1> SUFFICES ASSUME SessionInit PROVE SessionInv
    OBVIOUS
<1>1. TypeInv
    BY DistinctNames, NoPermsType, NoMembers
    DEF SessionInit, TypeInv, SessionTypeOK, NoLogouts, SignedOut, Idle, LogoutStage, Owners, Keys,
        Request, RequestStage
<1>2. Known
    BY DEF SessionInit, Known, NoLogouts, SignedOut, Idle
<1>3. Mine
    BY DEF SessionInit, Mine, MayOwn, SignedOut, NoPerms
<1> QED BY <1>1, <1>2, <1>3 DEF SessionInv

LEMMA ReloadInv ==
    ASSUME SessionInv, NEW c \in Owners, c # Nobody => enabled, Reload(c), UNCHANGED enabled
    PROVE  SessionInv'
<1>1. TypeInv'
    BY DistinctNames, NoPermsType, NoMembers
    DEF SessionInv, Reload, TypeInv, SessionTypeOK, NoLogouts, SignedOut, Idle, LogoutStage,
        Owners, Keys, Request, RequestStage
<1>2. Known'
    BY DEF Reload, Known, NoLogouts, SignedOut, Idle
<1>3. Mine'
    BY DEF Reload, Mine, MayOwn, SignedOut, NoPerms
<1> QED BY <1>1, <1>2, <1>3 DEF SessionInv

LEMMA Reloads ==
    ASSUME SessionInv,
           (\E a \in Accounts : LoginWithProvider(a)) \/ Unauthorized \/ PressReload
    PROVE  SessionInv'
<1>1. cookie \in Owners /\ (cookie # Nobody => enabled) /\ Accounts \subseteq Owners
    BY DEF SessionInv, TypeInv, SessionTypeOK, Owners
<1> QED BY <1>1, ReloadInv DEF LoginWithProvider, Unauthorized, PressReload

LEMMA StartEnds == ASSUME SessionInv, StartArrives \/ StartFails PROVE SessionInv'
<1>1. /\ start.stage = "asked" /\ start' = [stage |-> "over", who |-> Nobody]
      /\ UNCHANGED <<enabled, cookie, login, logouts, request, perms>>
      /\ past' \in [who : SUBSET Accounts, disturbed : BOOLEAN]
      /\ past'.disturbed = past.disturbed
    BY DEF StartArrives, StartFails, SessionInv, TypeInv, SessionTypeOK, Owners
<1>2. /\ start.who \in Owners /\ (start.who # Nobody => enabled)
      /\ login.stage = "none" /\ NoLogouts /\ IsFiniteSet(past.who)
    BY <1>1 DEF SessionInv, TypeInv, SessionTypeOK
<1>3. /\ user' \in User /\ status' \in BOOLEAN /\ (status' => enabled)
      /\ user'.authenticated <=> user'.who # Nobody
      /\ user'.authenticated => /\ status' /\ user'.who \in past'.who
                                /\ user'.email \in {user'.who, NoEmail}
      /\ status' => user'.who = start.who
      /\ past'.who \in {past.who, {}, {start.who}}
    <2>1. CASE StartArrives /\ start.who # Nobody
        <3>1. start.who \in Accounts /\ start.who \in Keys
            BY <1>2, <2>1 DEF Owners, Keys
        <3>2. user' = [authenticated |-> TRUE, who |-> start.who, email |-> start.who]
              /\ status' = enabled
            BY <2>1 DEF StartArrives
        <3>3. past'.who = {start.who}
            BY <2>1 DEF StartArrives, SessionInv, TypeInv, SessionTypeOK
        <3>4. enabled \in BOOLEAN
            BY DEF SessionInv, TypeInv, SessionTypeOK
        <3> QED BY <1>2, <2>1, <3>1, <3>2, <3>3, <3>4, SomeUser
    <2>2. CASE StartArrives /\ start.who = Nobody
        <3>1. user' = SignedOut /\ status' = enabled /\ past'.who = {}
            BY <2>2 DEF StartArrives, SessionInv, TypeInv, SessionTypeOK
        <3>2. enabled \in BOOLEAN
            BY DEF SessionInv, TypeInv, SessionTypeOK
        <3> QED BY <2>2, <3>1, <3>2, NoUser
    <2>3. CASE StartFails
        <3>1. user' = SignedOut /\ ~status' /\ status' \in BOOLEAN /\ past'.who = past.who
            BY <2>3 DEF StartFails
        <3> QED BY <3>1, NoUser
    <2> QED BY <2>1, <2>2, <2>3
<1>4. IsFiniteSet(past'.who)
    BY <1>2, <1>3, MoreMembers, NoMembers
<1>5. TypeInv'
    BY <1>1, <1>2, <1>3, <1>4 DEF SessionInv, TypeInv, SessionTypeOK, NoLogouts, Owners, User
<1>6. ASSUME ~past'.disturbed PROVE Known' /\ Mine'
    <2>1. Known /\ Mine
        BY <1>1, <1>6 DEF SessionInv
    <2>2. Known'
        BY <1>1, <1>2, <1>3, <2>1 DEF Known, NoLogouts
    <2>3. past.who = {}
        BY <1>1, <2>1 DEF Known
    <2> QED BY <1>1, <1>3, <2>1, <2>2, <2>3 DEF Mine, MayOwn
<1> QED BY <1>5, <1>6 DEF SessionInv

-----------------------------------------------------------------------------
(* Login and logout. *)

LEMMA LoginStarts == ASSUME SessionInv, NEW a \in Accounts, HandleSubmit(a) PROVE SessionInv'
<1>1. /\ start.stage = "over" /\ status /\ ~user.authenticated
      /\ login.stage = "none" /\ login' = [stage |-> "sent", who |-> a]
    BY DEF HandleSubmit, View, SessionInv, TypeInv, SessionTypeOK
<1>2. UNCHANGED <<enabled, cookie, start, status, user, logouts, request, perms, past>>
    BY DEF HandleSubmit
<1>3. TypeInv'
    BY <1>1, <1>2 DEF SessionInv, TypeInv, SessionTypeOK, NoLogouts, Owners
<1>4. Known => Known'
    BY <1>1, <1>2 DEF Known, NoLogouts
<1>5. Mine => Mine'
    BY <1>2 DEF Mine, MayOwn
<1> QED BY <1>2, <1>3, <1>4, <1>5 DEF SessionInv

LEMMA LoginGoes == ASSUME SessionInv, LoginHandled PROVE SessionInv'
<1>1. /\ login.stage = "sent" /\ login.who \in Accounts /\ status /\ start.stage = "over"
      /\ enabled
    BY DEF LoginHandled, SessionInv, TypeInv
<1>2. UNCHANGED <<enabled, start, status, user, logouts, request, perms, past>>
    BY DEF LoginHandled
<1>3. \/ cookie' = login.who /\ login' = [login EXCEPT !.stage = "done"]
      \/ cookie' = cookie /\ login' = Idle
    BY DEF LoginHandled
<1>4. TypeInv'
    BY <1>1, <1>2, <1>3 DEF SessionInv, TypeInv, SessionTypeOK, NoLogouts, Owners, Idle
<1>5. Known => Known'
    <2>1. login \in [stage : {"none", "sent", "done"}, who : Owners]
        BY DEF SessionInv, TypeInv, SessionTypeOK
    <2> QED BY <1>1, <1>2, <1>3, <2>1 DEF Known, NoLogouts, Idle
<1>6. Mine => Mine'
    BY <1>2 DEF Mine, MayOwn
<1> QED BY <1>2, <1>4, <1>5, <1>6 DEF SessionInv

LEMMA LoginEnds == ASSUME SessionInv, LoginAnswered PROVE SessionInv'
<1>1. /\ login.stage = "done" /\ login.who \in Accounts /\ status /\ start.stage = "over"
    BY DEF LoginAnswered, SessionInv, TypeInv
<1>2. /\ login' = Idle
      /\ user' = [authenticated |-> TRUE, who |-> login.who, email |-> NoEmail]
      /\ past' = [past EXCEPT !.who = past.who \cup {login.who}]
      /\ UNCHANGED <<enabled, cookie, start, status, logouts, perms>>
      /\ request' \in {request, Request("due")}
    BY DEF LoginAnswered
<1>3. user' \in User /\ user'.authenticated /\ user'.who = login.who /\ user'.email = NoEmail
    BY <1>1, <1>2, SomeUser DEF Keys
<1>4. /\ past' \in [who : SUBSET Accounts, disturbed : BOOLEAN]
      /\ past'.who = past.who \cup {login.who} /\ past'.disturbed = past.disturbed
    BY <1>1, <1>2 DEF SessionInv, TypeInv, SessionTypeOK
<1>5. IsFiniteSet(past'.who)
    <2>1. IsFiniteSet(past.who)
        BY DEF SessionInv, TypeInv
    <2>2. IsFiniteSet(past.who \cup {login.who})
        BY <2>1, MoreMembers
    <2> QED BY <1>4, <2>2
<1>51. request' \in [stage : RequestStage, last : BOOLEAN]
    <2>1. request \in [stage : RequestStage, last : BOOLEAN]
        BY DEF SessionInv, TypeInv, SessionTypeOK
    <2>2. Request("due") \in [stage : RequestStage, last : BOOLEAN]
        BY DEF Request, RequestStage
    <2> QED BY <1>2, <2>1, <2>2
<1>6. TypeInv'
    BY <1>1, <1>2, <1>3, <1>4, <1>5, <1>51, DistinctNames
    DEF SessionInv, TypeInv, SessionTypeOK, NoLogouts, Owners, Idle, User
<1>7. Known => Known'
    BY <1>1, <1>2, <1>3 DEF Known, NoLogouts, Idle
<1>8. Mine => Mine'
    BY <1>2, <1>3, <1>4 DEF Mine, MayOwn
<1> QED BY <1>4, <1>6, <1>7, <1>8 DEF SessionInv

LEMMA LogoutStarts == ASSUME SessionInv, Logout PROVE SessionInv'
<1>1. start.stage = "over" /\ status /\ user.authenticated
    BY DEF Logout, View, SessionInv, TypeInv, SessionTypeOK
<1>2. PICK i \in Presses :
         /\ logouts[i] = "none"
         /\ logouts' = [logouts EXCEPT ![i] = "sent"]
         /\ past' = [past EXCEPT !.disturbed = @ \/ \E j \in Presses : logouts[j] # "none"]
    BY DEF Logout
<1>3. UNCHANGED <<enabled, cookie, start, status, user, login, request, perms>>
    BY DEF Logout
<1> DEFINE d == past.disturbed \/ \E j \in Presses : logouts[j] # "none"
<1>4. d \in BOOLEAN
    BY Zenon
<1>5. past' = [past EXCEPT !.disturbed = d]
    BY <1>2
<1> HIDE DEF d
<1>6. /\ past' \in [who : SUBSET Accounts, disturbed : BOOLEAN]
      /\ past'.who = past.who /\ past'.disturbed = d
    BY <1>4, <1>5 DEF SessionInv, TypeInv, SessionTypeOK
<1>7. logouts' \in [Presses -> LogoutStage] /\ logouts'[i] = "sent"
      /\ \A j \in Presses \ {i} : logouts'[j] = logouts[j]
    BY <1>2 DEF SessionInv, TypeInv, SessionTypeOK, LogoutStage
<1>8. TypeInv'
    BY <1>1, <1>3, <1>6, <1>7 DEF SessionInv, TypeInv, SessionTypeOK, NoLogouts
<1>9. ASSUME ~past'.disturbed PROVE Known' /\ Mine'
    <2>1. ~past.disturbed /\ NoLogouts
        BY <1>6, <1>9 DEF d, NoLogouts
    <2>2. Known /\ Mine
        BY <2>1 DEF SessionInv
    <2>3. Known'
        BY <1>1, <1>3, <1>6, <1>7, <2>1, <2>2 DEF Known, NoLogouts
    <2> QED BY <1>3, <1>6, <2>2, <2>3 DEF Mine, MayOwn
<1> QED BY <1>8, <1>9 DEF SessionInv

LEMMA LogoutGoes ==
    ASSUME SessionInv, NEW i \in Presses, LogoutHandled(i) \/ LogoutAnswered(i)
    PROVE  SessionInv'
<1> USE DEF SessionInv
<1>1. start.stage = "over" /\ status /\ logouts[i] # "none" /\ ~NoLogouts
    BY DEF LogoutHandled, LogoutAnswered, TypeInv, NoLogouts
<1>2. UNCHANGED <<enabled, start, status, login, request, perms, past>>
    BY DEF LogoutHandled, LogoutAnswered
<1>3. \/ /\ logouts[i] = "sent" /\ UNCHANGED user
         /\ \/ cookie' = Nobody /\ logouts' = [logouts EXCEPT ![i] = "done"]
            \/ cookie' = cookie /\ logouts' = [logouts EXCEPT ![i] = "none"]
      \/ /\ logouts[i] = "done" /\ user' = SignedOut /\ UNCHANGED cookie
         /\ logouts' = [logouts EXCEPT ![i] = "none"]
    BY DEF LogoutHandled, LogoutAnswered
<1>4. logouts \in [Presses -> LogoutStage] /\ logouts' \in [Presses -> LogoutStage]
    BY <1>3 DEF TypeInv, SessionTypeOK, LogoutStage
<1>5. /\ user' \in User /\ (user'.authenticated <=> user'.who # Nobody)
      /\ user'.authenticated => status
    BY <1>1, <1>3, NoUser DEF TypeInv, SessionTypeOK, User
<1>6. cookie' \in Owners /\ (~enabled => cookie' = Nobody)
    BY <1>3 DEF TypeInv, SessionTypeOK, Owners
<1>7. TypeInv'
    BY <1>1, <1>2, <1>4, <1>5, <1>6 DEF TypeInv, SessionTypeOK, NoLogouts, User
<1>8. ASSUME Known PROVE Known'
    <2>1. /\ \A j \in Presses \ {i} : logouts[j] = "none" /\ logouts'[j] = "none"
          /\ user.authenticated /\ login.stage = "none"
        BY <1>1, <1>3, <1>4, <1>8 DEF Known, TypeInv, SessionTypeOK
    <2>2. CASE logouts[i] = "sent" /\ cookie' = Nobody /\ logouts' = [logouts EXCEPT ![i] = "done"]
               /\ UNCHANGED user
        <3>1. logouts'[i] = "done"
            BY <1>4, <2>2
        <3> QED BY <1>1, <1>2, <2>1, <2>2, <3>1 DEF Known, NoLogouts
    <2>3. CASE logouts[i] = "sent" /\ cookie' = cookie /\ logouts' = [logouts EXCEPT ![i] = "none"]
               /\ UNCHANGED user
        <3>1. \A j \in Presses : logouts'[j] = "none" /\ logouts[j] # "done"
            BY <1>4, <2>1, <2>3
        <3> QED BY <1>1, <1>2, <1>8, <2>1, <2>3, <3>1 DEF Known, NoLogouts
    <2>4. CASE /\ logouts[i] = "done" /\ user' = SignedOut /\ UNCHANGED cookie
               /\ logouts' = [logouts EXCEPT ![i] = "none"]
        <3>1. \A j \in Presses : logouts'[j] = "none"
            BY <1>4, <2>1, <2>4
        <3>2. cookie = Nobody /\ ~user'.authenticated /\ user'.who = Nobody
            BY <1>8, <2>4, NoUser DEF Known
        <3> QED BY <1>1, <1>2, <2>1, <2>4, <3>1, <3>2 DEF Known, NoLogouts
    <2> QED BY <1>3, <2>2, <2>3, <2>4
<1>9. Mine => Mine'
    BY <1>2, <1>3, NoUser DEF Mine, MayOwn
<1> QED BY <1>2, <1>7, <1>8, <1>9

-----------------------------------------------------------------------------
(* Requests of pages, permissions, and the world outside. *)

LEMMA PagesAsk ==
    ASSUME SessionInv, PageRequest \/ PageAnswered \/ RequestFails PROVE SessionInv'
<1> DEFINE Requests == [stage : RequestStage, last : BOOLEAN]
<1>0. request \in Requests /\ \A s \in RequestStage : Request(s) \in Requests
    BY DEF SessionInv, TypeInv, SessionTypeOK, Request
<1>1. UNCHANGED <<enabled, cookie, start, status, user, login, logouts, perms, past>>
      /\ request' \in Requests
    <2>1. CASE PageRequest
        <3>1. [request EXCEPT !.stage = "bare"] \in Requests
            BY <1>0 DEF RequestStage
        <3>2. Request("carries") \in Requests
            BY <1>0 DEF RequestStage
        <3> QED BY <2>1, <3>1, <3>2 DEF PageRequest
    <2>2. CASE PageAnswered
        BY <1>0, <2>2 DEF PageAnswered, RequestStage
    <2>3. CASE RequestFails
        BY <1>0, <2>3 DEF RequestFails, RequestStage
    <2> QED BY <2>1, <2>2, <2>3
<1>2. TypeInv'
    BY <1>1 DEF SessionInv, TypeInv, SessionTypeOK, NoLogouts
<1>3. (Known => Known') /\ (Mine => Mine')
    BY <1>1 DEF Known, Mine, MayOwn, NoLogouts
<1> QED BY <1>1, <1>2, <1>3 DEF SessionInv

\* Permissions are asked for with the cookie of the user the tab believes in.
LEMMA PermsSteps ==
    ASSUME SessionInv, NEW k \in Keys, PermsAsk(k) \/ PermsArrive(k) \/ PermsCollect(k)
    PROVE  SessionInv'
<1> DEFINE Perms == [data : Owners \cup {NoData}, asked : BOOLEAN, as : Owners]
<1>1. UNCHANGED <<enabled, cookie, start, status, user, login, logouts, request, past>>
    BY DEF PermsAsk, PermsArrive, PermsCollect
<1>2. perms \in [Keys -> Perms] /\ cookie \in Owners
    BY DEF SessionInv, TypeInv, SessionTypeOK
<1>3. PICK e \in Perms :
         /\ perms' = [perms EXCEPT ![k] = e]
         /\ \/ PermsAsk(k) /\ e.data = perms[k].data /\ e.as = cookie
            \/ e.data \in {perms[k].as, NoData} /\ ~e.asked
               /\ (e.data = perms[k].as => perms[k].asked \/ e.data = NoData)
    <2>1. CASE PermsAsk(k)
        <3> DEFINE e == [perms[k] EXCEPT !.asked = TRUE, !.as = cookie]
        <3>1. e \in Perms /\ e.data = perms[k].data /\ e.as = cookie
            BY <1>2
        <3>2. perms' = [perms EXCEPT ![k] = e]
            BY <1>2, <2>1 DEF PermsAsk
        <3> QED BY <2>1, <3>1, <3>2
    <2>2. CASE PermsArrive(k)
        <3> DEFINE e == [NoPerms EXCEPT !.data = perms[k].as]
        <3>1. e \in Perms /\ e.data = perms[k].as /\ ~e.asked
            BY <1>2, NoPermsType DEF NoPerms
        <3> QED BY <2>2, <3>1 DEF PermsArrive
    <2>3. CASE PermsCollect(k)
        <3>1. NoPerms \in Perms /\ NoPerms.data = NoData /\ ~NoPerms.asked
            BY NoPermsType DEF NoPerms
        <3> QED BY <2>3, <3>1 DEF PermsCollect
    <2> QED BY <2>1, <2>2, <2>3
<1>4. TypeInv'
    BY <1>1, <1>2, <1>3 DEF SessionInv, TypeInv, SessionTypeOK, NoLogouts
<1>5. Known => Known'
    BY <1>1 DEF Known, NoLogouts
<1>6. ASSUME Known, Mine PROVE Mine'
    <2>1. ASSUME PermsAsk(k) PROVE cookie \in MayOwn(k)
        <3>1. user.authenticated /\ status /\ start.stage = "over" /\ user.email = k
            BY <2>1 DEF PermsAsk, Needed, SessionInv, TypeInv
        <3>2. cookie \in {user.who, Nobody}
            BY <1>6, <3>1 DEF Known
        <3> QED BY <1>6, <3>1, <3>2 DEF Mine, MayOwn
    <2>2. perms'[k] = e /\ \A q \in Keys \ {k} : perms'[q] = perms[q]
        BY <1>2, <1>3
    <2>3. /\ perms'[k].data \in MayOwn(k) \cup {NoData}
          /\ perms'[k].asked => perms'[k].as \in MayOwn(k)
        BY <1>3, <1>6, <2>1, <2>2 DEF Mine
    <2>4. \A q \in Keys : MayOwn(q)' = MayOwn(q)
        BY <1>1 DEF MayOwn
    <2> QED BY <1>1, <1>6, <2>2, <2>3, <2>4 DEF Mine
<1> QED BY <1>1, <1>4, <1>5, <1>6 DEF SessionInv

LEMMA Outside == ASSUME SessionInv, Expire \/ \E a \in Accounts : OtherTab(a) PROVE SessionInv'
<1>1. /\ UNCHANGED <<enabled, start, status, user, login, logouts, request, perms>>
      /\ cookie' \in Owners /\ (cookie' # Nobody => enabled)
      /\ past' = [past EXCEPT !.disturbed = TRUE]
    BY DEF Expire, OtherTab, Owners
<1>2. past' \in [who : SUBSET Accounts, disturbed : BOOLEAN] /\ past'.who = past.who
      /\ past'.disturbed
    BY <1>1 DEF SessionInv, TypeInv, SessionTypeOK
<1>3. TypeInv'
    BY <1>1, <1>2 DEF SessionInv, TypeInv, SessionTypeOK, NoLogouts
<1> QED BY <1>2, <1>3 DEF SessionInv

LEMMA SessionStep == ASSUME SessionInv, [SessionNext]_sessionVars PROVE SessionInv'
<1>1. CASE SessionNext
    BY <1>1, StartEnds, LoginStarts, LoginGoes, LoginEnds, LogoutStarts, LogoutGoes, Reloads,
       PagesAsk, PermsSteps, Outside DEF SessionNext, PageRequests
<1>2. CASE UNCHANGED sessionVars
    <2>1. UNCHANGED <<enabled, cookie, start, status, user, login, logouts, request, perms, past>>
        BY <1>2 DEF sessionVars
    <2>2. TypeInv'
        BY <2>1 DEF SessionInv, TypeInv, SessionTypeOK, NoLogouts
    <2>3. (Known => Known') /\ (Mine => Mine')
        BY <2>1 DEF Known, Mine, MayOwn, NoLogouts
    <2> QED BY <2>1, <2>2, <2>3 DEF SessionInv
<1> QED BY <1>1, <1>2

LEMMA SessionAlways == SessionSpec => []SessionInv
BY SessionInitInv, SessionStep, PTL DEF SessionSpec

\* The tab, its requests and its caches hold what they are meant to hold, and
\* without a login at the server there is no session.
THEOREM SessionTypeCorrect == SessionSpec => []SessionTypeOK
<1>1. SessionInv => SessionTypeOK
    BY DEF SessionInv, TypeInv
<1> QED BY <1>1, SessionAlways, PTL

\* Once its requests are answered a tab believes the session that the cookie has,
\* whatever was refused or failed, in any order of starts, logins and logouts.
THEOREM TabKnowsSessionAlways == SessionSpec => []TabKnowsSession
<1>1. SessionInv => TabKnowsSession
    BY DEF SessionInv, Known, TabKnowsSession, Quiet
<1> QED BY <1>1, SessionAlways, PTL

\* Where the tab knows that a login is asked for, it goes by the permissions of the
\* account it shows or by none: always if the email is known, whoever was signed in
\* before; without an email while no other account was signed in since the load.
THEOREM PermissionsAreMineAlways == SessionSpec => []PermissionsAreMine
<1>1. ASSUME SessionInv PROVE PermissionsAreMine
    <2>1. SUFFICES ASSUME status, ~past.disturbed,
                          user.email # NoEmail \/ Cardinality(past.who) <= 1
                   PROVE  Granted \in {user.who, Nobody}
        BY DEF PermissionsAreMine
    <2>2. Mine /\ IsFiniteSet(past.who) /\ user.email \in Keys
        BY <1>1, <2>1 DEF SessionInv, TypeInv, SessionTypeOK
    <2>3. ASSUME Needed(user.email), perms[user.email].data # NoData
          PROVE  perms[user.email].data \in {user.who, Nobody}
        <3>1. user.who \in past.who /\ user.email \in {user.who, NoEmail}
            BY <2>2, <2>3 DEF Needed, Mine
        <3>2. perms[user.email].data \in MayOwn(user.email)
            BY <2>2, <2>3 DEF Mine
        <3>3. CASE user.email # NoEmail
            BY <3>1, <3>2, <3>3 DEF MayOwn
        <3>4. CASE user.email = NoEmail
            BY <2>1, <2>2, <3>1, <3>2, <3>4, OneMember DEF MayOwn
        <3> QED BY <3>3, <3>4
    <2> QED BY <2>1, <2>3 DEF Granted
<1> QED BY <1>1, SessionAlways, PTL

-----------------------------------------------------------------------------
(* The metrics page: an entry of the cache is about its key, whenever it was *)
(* asked and whatever is chosen by now.                                      *)

Reading == [choice : Choices, asked : Times, to : Times, from : -(MaxTime + Month)..MaxTime]

MetricsEntry == [asked  : Times \cup {NoTime}, choice : Choices \cup {NoRange},
                 data   : {NoMetrics} \cup Reading,
                 failed : {"no", "down", "unconfigured"}]

\* A reading that begins where live began, or later.
FromStart(d) == d.choice.preset = Live /\ d.asked > d.choice.start => d.from >= d.choice.start

\* One that is as long as its preset or its range.
Spanning(d) ==
    /\ d.choice.preset \in Presets => d.to - d.from = Length[d.choice.preset]
    /\ d.choice.range # NoRange /\ d.choice.range[2] - d.choice.range[1] \in 1..Month =>
          d.to - d.from = d.choice.range[2] - d.choice.range[1]

EntryOK(k, e, t) ==
    /\ e \in MetricsEntry
    /\ e.asked # NoTime => e.choice = k /\ e.asked <= t
    /\ e.data # NoMetrics => e.data.choice = k /\ FromStart(e.data) /\ Spanning(e.data)

CacheOK(cache, t) ==
    /\ DOMAIN cache \subseteq Choices
    /\ \A k \in DOMAIN cache : EntryOK(k, cache[k], t)

MetricsInv ==
    /\ now \in FirstTime..MaxTime /\ open \in BOOLEAN
    /\ Choice \in Choices /\ liveStart \in Times \cup {NoTime}
    /\ CacheOK(metrics, now)

LEMMA TimeFacts ==
    /\ FirstTime..MaxTime \subseteq Times /\ Times \subseteq Nat /\ NoTime \notin Times
    /\ MaxTime \in Nat /\ Month \in Nat \ {0} /\ FirstTime \in FirstTime..MaxTime
BY MetricsPageAssumption DEF Times

LEMMA NoEntryOK == ASSUME NEW k, NEW t PROVE EntryOK(k, NoEntry, t)
BY DEF EntryOK, NoEntry, MetricsEntry

LEMMA AnyEntryOK ==
    ASSUME NEW t, CacheOK(metrics, t), NEW k PROVE EntryOK(k, Entry(k), t)
BY NoEntryOK DEF CacheOK, Entry

\* A cache with one entry put into it.
LEMMA PutOK ==
    ASSUME NEW t, CacheOK(metrics, t), NEW k \in Choices, NEW e, EntryOK(k, e, t)
    PROVE  CacheOK(Put(k, e), t)
BY DEF CacheOK, Put

LEMMA FetchOK ==
    ASSUME CacheOK(metrics, now), now \in FirstTime..MaxTime, NEW c \in Choices
    PROVE  CacheOK(Fetch(c), now)
<1> DEFINE e == Entry(MetricsKey(c))
           f == IF e.data = NoMetrics THEN "no" ELSE e.failed
           g == [e EXCEPT !.asked = now, !.choice = c, !.failed = f]
<1>1. CASE e.asked # NoTime
    BY <1>1 DEF Fetch
<1>2. CASE e.asked = NoTime
    <2>1. Fetch(c) = Put(c, g)
        BY <1>2 DEF Fetch, MetricsKey
    <2>2. EntryOK(c, e, now)
        BY AnyEntryOK DEF MetricsKey
    <2>3. f \in {"no", "down", "unconfigured"} /\ now \in Times /\ now <= now
        BY <2>2, TimeFacts DEF EntryOK, MetricsEntry
    <2> HIDE DEF e, f
    <2>4. EntryOK(c, g, now)
        BY <2>2, <2>3 DEF EntryOK, MetricsEntry
    <2> QED BY <2>1, <2>4, PutOK
<1> QED BY <1>1, <1>2

\* How far back the server looks, for a choice that was asked for.
LEMMA DurationFacts ==
    ASSUME NEW c \in Choices, NEW asked \in Times
    PROVE  /\ ParseDuration(c, asked) \in 1..Month
           /\ c.preset = Live /\ asked > c.start => ParseDuration(c, asked) <= asked - c.start
           /\ c.preset \in Presets => ParseDuration(c, asked) = Length[c.preset]
           /\ c.range # NoRange /\ c.range[2] - c.range[1] \in 1..Month =>
                 ParseDuration(c, asked) = c.range[2] - c.range[1]
<1> DEFINE between(f, t) == IF t - f <= 0 THEN Length[PastHour]
                            ELSE IF t - f > Month THEN Month ELSE t - f
<1>1. \A f, t \in Times : /\ between(f, t) \in 1..Month
                          /\ t > f => between(f, t) <= t - f
                          /\ t - f \in 1..Month => between(f, t) = t - f
    BY TimeFacts, MetricsPageAssumption
<1>2. ParseDuration(c, asked) = IF c.preset = Live THEN between(c.start, asked)
                                ELSE IF c.preset = NoPreset THEN between(c.range[1], c.range[2])
                                ELSE Length[c.preset]
    BY DEF ParseDuration
<1>3. Live # NoPreset /\ Live \notin Presets /\ NoPreset \notin Presets
      /\ Length \in [Presets -> 1..Month]
    BY MetricsPageAssumption
<1> HIDE DEF between
<1>4. CASE c.preset = Live
    <2>1. c.start \in Times /\ c.range = NoRange
        BY <1>3, <1>4 DEF Choices
    <2> QED BY <1>1, <1>2, <1>3, <1>4, <2>1
<1>5. CASE c.preset = NoPreset
    <2>1. c.range \in Times \X Times
        BY <1>3, <1>5 DEF Choices
    <2> QED BY <1>1, <1>2, <1>3, <1>5, <2>1
<1>6. CASE c.preset \notin {Live, NoPreset}
    <2>1. c.preset \in Presets /\ c.range = NoRange
        BY <1>6 DEF Choices
    <2> QED BY <1>2, <1>3, <1>6, <2>1
<1> QED BY <1>4, <1>5, <1>6

LEMMA AnswerOK ==
    ASSUME MetricsInv, NEW k \in Choices, Answer(k)
    PROVE  CacheOK(metrics', now)
<1> DEFINE c == Entry(k).choice
           asked == Entry(k).asked
           from == now - ParseDuration(c, asked)
           data == [choice |-> c, asked |-> asked, to |-> now, from |-> from]
           e == [NoEntry EXCEPT !.data = data]
<1>1. /\ asked \in Times /\ asked <= now /\ c = k
    BY AnyEntryOK DEF Answer, MetricsInv, EntryOK, MetricsEntry
<1>2. metrics' = Put(k, e)
    BY DEF Answer
<1>3. now \in Times /\ now <= MaxTime
    BY TimeFacts DEF MetricsInv
<1>4. /\ from \in -(MaxTime + Month)..MaxTime
      /\ k.preset = Live /\ asked > k.start => from >= k.start
    <2>1. ParseDuration(c, asked) \in 1..Month
        BY <1>1, DurationFacts
    <2>2. from \in -(MaxTime + Month)..MaxTime
        BY <1>3, <2>1, TimeFacts
    <2>3. ASSUME k.preset = Live, asked > k.start PROVE from >= k.start
        <3>1. k.start \in Times
            BY <2>3, MetricsPageAssumption DEF Choices
        <3>2. ParseDuration(c, asked) <= asked - k.start
            BY <1>1, <2>3, DurationFacts
        <3>3. \A d, a, s \in Nat : a <= now /\ d <= a - s => now - d >= s
            BY <1>3, TimeFacts
        <3>4. \A d \in 1..Month : d \in Nat
            BY TimeFacts
        <3>5. asked \in Nat /\ k.start \in Nat
            BY <1>1, <3>1, TimeFacts
        <3> QED BY <1>1, <2>1, <3>2, <3>3, <3>4, <3>5
    <2> QED BY <2>2, <2>3
<1>a. ParseDuration(c, asked) = now - from
    <2>1. ParseDuration(c, asked) \in 1..Month
        BY <1>1, DurationFacts
    <2>2. \A n \in Times, d \in 1..Month : n - (n - d) = d
        BY TimeFacts
    <2> QED BY <1>3, <2>1, <2>2
<1>b. /\ k.preset \in Presets => now - from = Length[k.preset]
      /\ k.range # NoRange /\ k.range[2] - k.range[1] \in 1..Month =>
            now - from = k.range[2] - k.range[1]
    <2> HIDE DEF from
    <2> QED BY <1>1, <1>a, DurationFacts
<1> HIDE DEF c, asked, from
<1>5. data \in Reading /\ FromStart(data) /\ Spanning(data) /\ data.choice = k
    BY <1>1, <1>3, <1>4, <1>b DEF Reading, FromStart, Spanning
<1> HIDE DEF data
<1>6. EntryOK(k, e, now)
    BY <1>5 DEF EntryOK, NoEntry, MetricsEntry
<1> QED BY <1>2, <1>6, PutOK DEF MetricsInv

LEMMA FailsOK ==
    ASSUME MetricsInv, NEW k \in Choices, Fails(k)
    PROVE  CacheOK(metrics', now)
<1>1. PICK why \in {"down", "unconfigured"} :
         metrics' = Put(k, [NoEntry EXCEPT !.data = Entry(k).data, !.failed = why])
    BY DEF Fails
<1>2. EntryOK(k, [NoEntry EXCEPT !.data = Entry(k).data, !.failed = why], now)
    BY AnyEntryOK DEF MetricsInv, EntryOK, NoEntry, MetricsEntry
<1> QED BY <1>1, <1>2, PutOK DEF MetricsInv

-----------------------------------------------------------------------------
LEMMA MetricsInitInv == MetricsInit => MetricsInv
<1> SUFFICES ASSUME MetricsInit PROVE MetricsInv
    OBVIOUS
<1>1. Choice \in Choices
    BY MetricsPageAssumption DEF MetricsInit, Choice, Choices
<1>2. CacheOK(metrics, now)
    BY DEF MetricsInit, CacheOK
<1> QED BY <1>1, <1>2, TimeFacts DEF MetricsInit, MetricsInv

\* A choice is a preset, live with a start, or a range.
LEMMA ChooseInv ==
    ASSUME MetricsInv,
           \/ \E p \in Presets : HandlePresetSelect(p)
           \/ SelectLive \/ \E r \in Times \X Times : ChooseRange(r)
    PROVE  MetricsInv'
<1>1. now \in Times
    BY TimeFacts DEF MetricsInv
<1>2. Choice' \in Choices /\ liveStart' \in Times \cup {NoTime}
    <2>1. ASSUME NEW p \in Presets, HandlePresetSelect(p)
          PROVE  Choice' \in Choices /\ liveStart' \in Times \cup {NoTime}
        BY <2>1, MetricsPageAssumption DEF HandlePresetSelect, Choose, Choice, Choices
    <2>2. ASSUME SelectLive PROVE Choice' \in Choices /\ liveStart' \in Times \cup {NoTime}
        BY <1>1, <2>2 DEF SelectLive, Choose, Choice, Choices
    <2>3. ASSUME NEW r \in Times \X Times, ChooseRange(r)
          PROVE  Choice' \in Choices /\ liveStart' \in Times \cup {NoTime}
        BY <2>3, MetricsPageAssumption DEF ChooseRange, Choose, Choice, Choices, MetricsInv
    <2> QED BY <2>1, <2>2, <2>3
<1>3. /\ metrics' = metrics \/ metrics' = Fetch(Choice')
      /\ UNCHANGED <<now, open>>
    BY DEF HandlePresetSelect, SelectLive, ChooseRange, Choose
<1>4. CacheOK(metrics', now)
    BY <1>2, <1>3, FetchOK DEF MetricsInv
<1> QED BY <1>2, <1>3, <1>4 DEF MetricsInv

LEMMA FetchSteps == ASSUME MetricsInv, Refetch \/ RetryMetrics \/ OpenPage PROVE MetricsInv'
<1>1. /\ metrics' = Fetch(Choice) /\ open' \in BOOLEAN
      /\ UNCHANGED <<now, preset, range, liveStart>>
    BY DEF Refetch, RetryMetrics, OpenPage, MetricsInv
<1>2. Choice' = Choice
    BY <1>1 DEF Choice
<1>3. CacheOK(metrics', now)
    BY <1>1, FetchOK DEF MetricsInv
<1> QED BY <1>1, <1>2, <1>3 DEF MetricsInv

LEMMA AnswerSteps ==
    ASSUME MetricsInv, \E k \in DOMAIN metrics : Answer(k) \/ Fails(k) \/ Forget(k)
    PROVE  MetricsInv'
<1>1. PICK k \in DOMAIN metrics : Answer(k) \/ Fails(k) \/ Forget(k)
    OBVIOUS
<1>2. UNCHANGED <<now, open, preset, range, liveStart>>
    BY <1>1 DEF Answer, Fails, Forget
<1>3. CacheOK(metrics', now)
    <2>1. k \in Choices
        BY DEF MetricsInv, CacheOK
    <2>2. CASE Forget(k)
        BY <2>2 DEF Forget, MetricsInv, CacheOK
    <2> QED BY <1>1, <2>1, <2>2, AnswerOK, FailsOK
<1>4. Choice' = Choice
    BY <1>2 DEF Choice
<1> QED BY <1>2, <1>3, <1>4 DEF MetricsInv

LEMMA CloseAndTick ==
    ASSUME MetricsInv, ClosePage \/ Tick \/ UNCHANGED metricsVars
    PROVE  MetricsInv'
<1>1. CASE ClosePage
    <2>1. Choice' \in Choices /\ liveStart' = NoTime
        BY <1>1, MetricsPageAssumption DEF ClosePage, Choice, Choices
    <2> QED BY <1>1, <2>1 DEF ClosePage, MetricsInv
<1>2. CASE Tick
    <2>1. UNCHANGED <<open, metrics, liveStart>> /\ Choice' = Choice
        BY <1>2 DEF Tick, Choice
    <2>2. now' \in FirstTime..MaxTime /\ now <= now'
        BY <1>2, TimeFacts DEF Tick, MetricsInv
    <2>3. \A t \in Times : t <= now => t <= now'
        BY <2>2, TimeFacts DEF MetricsInv
    <2>4. \A k \in DOMAIN metrics : EntryOK(k, metrics[k], now')
        BY <2>3 DEF MetricsInv, CacheOK, EntryOK, MetricsEntry
    <2> QED BY <2>1, <2>2, <2>4 DEF MetricsInv, CacheOK
<1>3. CASE UNCHANGED metricsVars
    BY <1>3 DEF metricsVars, MetricsInv, Choice
<1> QED BY <1>1, <1>2, <1>3

LEMMA MetricsStep == ASSUME MetricsInv, [MetricsNext]_metricsVars PROVE MetricsInv'
BY ChooseInv, FetchSteps, AnswerSteps, CloseAndTick DEF MetricsNext

LEMMA MetricsAlways == MetricsPageSpec => []MetricsInv
BY MetricsInitInv, MetricsStep, PTL DEF MetricsPageSpec

\* Shown metrics belong to the key of the current choice.
LEMMA MetricsFacts ==
    ASSUME MetricsInv, Metrics # NoMetrics
    PROVE  /\ Metrics \in Reading /\ Metrics.choice = Choice
           /\ FromStart(Metrics) /\ Spanning(Metrics)
<1>1. Metrics = Entry(Choice).data /\ EntryOK(Choice, Entry(Choice), now)
    BY AnyEntryOK DEF Metrics, Current, MetricsKey, MetricsInv
<1> QED BY <1>1 DEF EntryOK, MetricsEntry

\* The choice is always a preset, live since some time, or a range, and what is
\* cached is about such choices.
THEOREM MetricsPageTypeCorrect == MetricsPageSpec => []MetricsPageTypeOK
<1>1. MetricsInv => MetricsPageTypeOK
    BY DEF MetricsInv, MetricsPageTypeOK, CacheOK, EntryOK, MetricsEntry, Reading
<1> QED BY <1>1, MetricsAlways, PTL

\* What is shown under a label was asked for that choice.
THEOREM ShownIsChosenAlways == MetricsPageSpec => []ShownIsChosen
<1>1. MetricsInv => ShownIsChosen
    BY MetricsFacts DEF ShownIsChosen
<1> QED BY <1>1, MetricsAlways, PTL

\* Live metrics begin no earlier than live was chosen, if they were asked for later.
THEOREM LiveSinceStartAlways == MetricsPageSpec => []LiveSinceStart
<1>1. ASSUME MetricsInv PROVE LiveSinceStart
    <2>1. SUFFICES ASSUME Metrics # NoMetrics, preset = Live, Metrics.asked > liveStart
                   PROVE  Metrics.from >= liveStart
        BY DEF LiveSinceStart
    <2>2. Metrics.choice = Choice /\ FromStart(Metrics)
        BY <1>1, <2>1, MetricsFacts
    <2> QED BY <2>1, <2>2 DEF FromStart, Choice
<1> QED BY <1>1, MetricsAlways, PTL

\* Metrics of a preset are as long as it says, those of a range as long as that.
THEOREM SpanIsChosenAlways == MetricsPageSpec => []SpanIsChosen
<1>1. ASSUME MetricsInv PROVE SpanIsChosen
    <2>1. SUFFICES ASSUME Metrics # NoMetrics PROVE SpanIsChosen
        BY DEF SpanIsChosen
    <2>2. Metrics.choice = Choice /\ Spanning(Metrics)
        BY <1>1, <2>1, MetricsFacts
    <2>3. Choice.preset = preset /\ Choice.range = range
        BY DEF Choice
    <2> QED BY <2>2, <2>3 DEF Spanning, SpanIsChosen
<1> QED BY <1>1, MetricsAlways, PTL

\* The tab agrees with the cookie, and its buttons with the tab, as far as TabAgrees
\* says.
THEOREM TabAlwaysAgrees == SessionSpec => []TabAgrees
<1>1. TabKnowsSession /\ PermissionsAreMine => TabAgrees
    BY DEF TabAgrees
<1> QED BY <1>1, TabKnowsSessionAlways, PermissionsAreMineAlways, PTL

\* The label over the metrics is that of the request they answer, and their length
\* is the one it gives; nothing is said of when a custom range begins.
THEOREM LabelsAreOfMetrics == MetricsPageSpec => []LabelIsOfMetrics
<1>1. ShownIsChosen /\ LiveSinceStart /\ SpanIsChosen => LabelIsOfMetrics
    BY DEF LabelIsOfMetrics
<1> QED BY <1>1, ShownIsChosenAlways, LiveSinceStartAlways, SpanIsChosenAlways, PTL

-----------------------------------------------------------------------------
(* The two together. *)

\* A behaviour of the run is one of the session and one of the metrics page.
THEOREM TabIsTheTwo == TabSpec => SessionSpec /\ MetricsPageSpec
<1>1. TabInit => SessionInit /\ MetricsInit
    BY DEF TabInit
<1>2. [TabNext]_tabVars => [SessionNext]_sessionVars
    BY DEF TabNext, tabVars
<1>3. [TabNext]_tabVars => [MetricsNext]_metricsVars
    BY DEF TabNext, tabVars
<1> QED BY <1>1, <1>2, <1>3, PTL DEF TabSpec, SessionSpec, MetricsPageSpec

\* All that the run checks of a tab but its coming to the login page.
THEOREM TabIsCorrect == TabSpec => [](TypeOK /\ TabAgrees /\ LabelIsOfMetrics)
<1>1. SessionTypeOK /\ MetricsPageTypeOK => TypeOK
    BY DEF TypeOK
<1> QED BY <1>1, TabIsTheTwo, SessionTypeCorrect, MetricsPageTypeCorrect, TabAlwaysAgrees, LabelsAreOfMetrics, PTL
=============================================================================
