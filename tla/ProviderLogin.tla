----------------------------- MODULE ProviderLogin -----------------------------
(***************************************************************************)
(* The logins of one browser with identity providers (LoginProvider and    *)
(* Callback in internal/api/handlers/auth.go, Exchange of the OIDC         *)
(* provider).  The server keeps nothing of a login that is under way: its  *)
(* state and nonce are in two cookies, of which the browser has one each,  *)
(* however many tabs are logging in.  The requests of the tabs and their   *)
(* answers overlap; what follows on a login that comes through is          *)
(* UserAccess.                                                             *)
(***************************************************************************)
EXTENDS Naturals, Sequences

CONSTANTS
    MaxLogins,      \* bound: logins begun
    MaxCallbacks    \* bound: requests of the callback, repeated ones included

ASSUME ProviderAssumption == MaxLogins \in Nat /\ MaxCallbacks \in Nat

\* The n-th login begun: its state, its nonce and its code, all made for it.
Logins == 1..MaxLogins
Unset  == 0

VARIABLES
    begun,      \* logins begun
    cookies,    \* oauth_state, oauth_nonce and the session, by their login
    redeemed,   \* the codes that were exchanged: a provider takes each once
    callbacks,  \* requests of the callback: what they carry, how they fared
    owned       \* history: the last login begun has the cookies to itself

providerVars == <<begun, cookies, redeemed, callbacks, owned>>

Verdicts == {"limited", "no code", "no cookie", "mismatch", "nonce", "failed", "ok"}
Callbacks ==
    [login : Logins, code : BOOLEAN, state : Logins \union {Unset}, nonce : Logins \union {Unset},
     last : BOOLEAN, fresh : BOOLEAN, verdict : Verdicts \union {"none"}, under_way : BOOLEAN]

ProviderTypeOK ==
    /\ begun \in Logins \union {0}
    /\ cookies \in [state : Logins \union {Unset}, nonce : Logins \union {Unset},
                    session : Logins \union {Unset}]
    /\ redeemed \subseteq Logins
    /\ callbacks \in Seq(Callbacks)
    /\ owned \in BOOLEAN

ProviderInit ==
    /\ begun = 0 /\ redeemed = {} /\ callbacks = <<>> /\ owned = FALSE
    /\ cookies = [state |-> Unset, nonce |-> Unset, session |-> Unset]

\* Callback before it clears the cookies and goes to the provider: what it finds
\* wrong, or nothing.
Refusal(call) ==
    IF ~call.code THEN "no code"
    ELSE IF call.state = Unset THEN "no cookie"
    ELSE IF call.state # call.login THEN "mismatch"
    ELSE IF call.nonce = Unset THEN "no cookie"
    ELSE "none"

\* The cookies are cleared once the state has been found right, however the
\* exchange goes.
PastTheState(call) == call.verdict \in {"nonce", "failed", "ok"}

ClearedAlways(call) == TRUE           \* mutant: every answer clears the cookies

Clears(call) == PastTheState(call)

\* Its answer will clear the cookies, or may yet.
MayClear(call) ==
    \/ PastTheState(call)
    \/ call.verdict = "none" /\ Refusal(call) = "none"

\* The answer of LoginProvider arrives: both cookies, and off to the provider.  The
\* login has them to itself unless an earlier one is just being answered, whose
\* answer will take them away.
LoginProvider ==
    /\ begun < MaxLogins
    /\ begun' = begun + 1
    /\ owned' = \A i \in DOMAIN callbacks : callbacks[i].under_way => ~MayClear(callbacks[i])
    /\ cookies' = [cookies EXCEPT !.state = begun', !.nonce = begun']
    /\ UNCHANGED <<redeemed, callbacks>>

\* After five minutes the browser drops the two; they were set together.
Expire ==
    /\ cookies.state # Unset
    /\ cookies' = [cookies EXCEPT !.state = Unset, !.nonce = Unset]
    /\ owned' = FALSE
    /\ UNCHANGED <<begun, redeemed, callbacks>>

\* The provider sends a tab back, with a code or with a refusal, or the callback's
\* page is loaded once more: the request takes the cookies of this moment along.
ComeBack(n, code) ==
    /\ n <= begun /\ Len(callbacks) < MaxCallbacks
    /\ callbacks' = Append(callbacks,
           [login |-> n, code |-> code, state |-> cookies.state, nonce |-> cookies.nonce,
            last |-> n = begun, fresh |-> n = begun /\ owned,
            verdict |-> "none", under_way |-> TRUE])
    /\ UNCHANGED <<begun, cookies, redeemed, owned>>

Judge(i, verdict) == callbacks' = [callbacks EXCEPT ![i].verdict = verdict]

Refused(i) ==
    /\ callbacks[i].verdict = "none"
    /\ \/ Judge(i, "limited")
       \/ Refusal(callbacks[i]) # "none" /\ Judge(i, Refusal(callbacks[i]))
    /\ UNCHANGED <<begun, cookies, redeemed, owned>>

\* Exchange: a code is good once, the nonce is compared with that of the token, and
\* anything on the way to the session may fail.
Exchanged(i) ==
    LET call == callbacks[i] IN
    /\ call.verdict = "none" /\ Refusal(call) = "none"
    /\ \/ Judge(i, "failed") /\ UNCHANGED redeemed
       \/ /\ call.login \notin redeemed
          /\ redeemed' = redeemed \union {call.login}
          /\ \/ Judge(i, "failed")
             \/ Judge(i, IF call.nonce = call.login THEN "ok" ELSE "nonce")
    /\ UNCHANGED <<begun, cookies, owned>>

\* The answer of a callback arrives, or is lost.
Arrive(i) ==
    LET call == callbacks[i] IN
    /\ call.verdict # "none" /\ call.under_way
    /\ callbacks' = [callbacks EXCEPT ![i].under_way = FALSE]
    /\ cookies' = [state   |-> IF Clears(call) THEN Unset ELSE cookies.state,
                   nonce   |-> IF Clears(call) THEN Unset ELSE cookies.nonce,
                   session |-> IF call.verdict = "ok" THEN call.login ELSE cookies.session]
    /\ owned' = (owned /\ ~(call.login = begun /\ PastTheState(call)))
    /\ UNCHANGED <<begun, redeemed>>

Lose(i) ==
    /\ callbacks[i].verdict # "none" /\ callbacks[i].under_way
    /\ callbacks' = [callbacks EXCEPT ![i].under_way = FALSE]
    /\ UNCHANGED <<begun, cookies, redeemed, owned>>

Callback == \E i \in DOMAIN callbacks : Refused(i) \/ Exchanged(i) \/ Arrive(i) \/ Lose(i)

ProviderNext ==
    \/ LoginProvider \/ Expire \/ Callback
    \/ \E n \in Logins, code \in BOOLEAN : ComeBack(n, code)

ProviderSpec == ProviderInit /\ [][ProviderNext]_providerVars

-----------------------------------------------------------------------------
\* While several tabs log in, each over the cookies of the other, the last login
\* gets through if no earlier one was just being answered when it began: until
\* another begins, or the answer to its own callback arrives, or five minutes pass,
\* no callback of it is refused for its cookies, whatever becomes of those of
\* earlier ones.  (If one was, its answer may clear the cookies of the last, and
\* that one is refused.)  However it began, only the last login gets through,
\* and a state never comes with the nonce of another login.
LastLoginComesThrough ==
    \A i \in DOMAIN callbacks :
        LET call == callbacks[i] IN
        /\ call.fresh => call.verdict \notin {"no cookie", "mismatch"}
        /\ call.verdict = "ok" => call.last
        /\ call.verdict # "nonce"
=============================================================================
