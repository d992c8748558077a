----------------------------- MODULE Storefront -----------------------------
(***************************************************************************)
(* A tab of the storefront (storefront/static/js: api.js, auth-guard.js)   *)
(* and what the service does for it: GET /me and POST /logout, which check *)
(* the token against two signing keys while the key is being rotated       *)
(* (app/security/jwt_utils.py) and the revocations (module Sessions),      *)
(* behind the default rate limit of a worker (config.py).                  *)
(*                                                                         *)
(* The scripts of a page run until they await an answer; answers are lost, *)
(* late and out of order. Opening another page drops the calls and the     *)
(* timer of the old one; sessionStorage lasts as long as the tab. A token  *)
(* is named by its number; its account is the one that logged in for it.   *)
(***************************************************************************)
EXTENDS Integers, Sequences

CONSTANTS
    Workers,   \* the gunicorn worker processes
    Calls,     \* the calls of /me that can be under way in a page
    Limit,     \* RATELIMIT_DEFAULT, for the tab's address and this endpoint
    MaxTokens, \* bound: how often the tab logs in
    MaxKeys    \* bound: how many signing keys there are

ASSUME BoundsAssumption == Limit \in Nat \ {0} /\ MaxTokens \in Nat
                            /\ MaxKeys \in Nat \ {0}

VARIABLES
    token,     \* sessionStorage mlpsaps_access_token; 0 if there is none
    user,      \* sessionStorage mlpsaps_user: the token it came with; 0 if there is none
    page,      \* what the page is doing
    watching,  \* sessionWatchTimer is set
    visible,   \* ~document.hidden
    call,      \* call[i]: a call of /me under way
    tokens,    \* tokens[t]: an issued access token
    key,       \* JWT_SECRET_KEY; the previous one is JWT_SECRET_KEY_PREVIOUS
    reachable, \* the tab reaches the service
    own, other \* the requests counted in the window of each worker: the tab's, all others

tab == <<token, user, page, watching, visible, call>>
service == <<tokens, key, own, other>>
vars == <<tab, service, reachable>>

NoCall == [for |-> "none", token |-> 0, answer |-> "none"]

Call == [for: {"none", "guard", "watch"}, token: 0..MaxTokens,
         answer: {"none", "ok", "rejected", "trouble"}]

Token == [key: 1..MaxKeys, state: {"valid", "revoked", "expired"}]

(* "public" stands for every page without requireAuth, the login page      *)
(* included; "logout" is waiting for the service and "loggedOut" not any   *)
(* more; "leaving" has set location.href.                                  *)
Pages == {"public", "loading", "failed", "guarded", "logout", "loggedOut", "leaving"}

Init ==
    /\ token = 0 /\ user = 0 /\ page = "public" /\ watching = FALSE /\ visible = TRUE
    /\ call = [i \in Calls |-> NoCall]
    /\ tokens = <<>> /\ key = 1 /\ reachable = TRUE
    /\ own = [w \in Workers |-> 0] /\ other = [w \in Workers |-> 0]

Issued == DOMAIN tokens

Goto(p) == page' = p

Clear == token' = 0 /\ user' = 0

-----------------------------------------------------------------------------
(* The service.                                                            *)

(* Fault: the previous key is not tried.                                   *)
BugVerifies(t) == tokens[t].key = key

(* decode_token: the second key is tried when the signature does not fit   *)
(* the first.                                                              *)
Verifies(t) == tokens[t].key \in {key, key - 1}

(* Fault: the revocations are not looked up.                               *)
BugAccepts(t) == t \in Issued /\ Verifies(t) /\ tokens[t].state # "expired"

Accepts(t) == t \in Issued /\ Verifies(t) /\ tokens[t].state = "valid"

Full(w) == own[w] + other[w] >= Limit

(* GET /me on worker w: the limiter, then token_required.                  *)
Serve(i, w) ==
    /\ call[i] # NoCall /\ call[i].answer = "none" /\ reachable
    /\ \/ Full(w) /\ call' = [call EXCEPT ![i].answer = "trouble"] /\ UNCHANGED own
       \/ /\ ~Full(w)
          /\ own' = [own EXCEPT ![w] = @ + 1]
          /\ call' = [call EXCEPT ![i].answer = IF Accepts(call[i].token) THEN "ok" ELSE "rejected"]
    /\ UNCHANGED <<token, user, page, watching, visible, tokens, key, reachable, other>>

(* The network or the service fails.                                       *)
Lose(i) ==
    /\ call[i] # NoCall /\ ~reachable
    /\ call' = [call EXCEPT ![i].answer = "trouble"]
    /\ UNCHANGED <<token, user, page, watching, visible, service, reachable>>

(* Elsewhere the session is revoked, or its time is over.                  *)
EndToken(t, state) ==
    /\ tokens[t].state = "valid"
    /\ tokens' = [tokens EXCEPT ![t].state = state]
    /\ UNCHANGED <<tab, key, reachable, own, other>>

(* The service is restarted with a new key and the old one as previous.    *)
RotateKey ==
    /\ key < MaxKeys /\ key' = key + 1
    /\ UNCHANGED <<tab, tokens, reachable, own, other>>

OtherRequest(w) ==
    /\ ~Full(w)
    /\ other' = [other EXCEPT ![w] = @ + 1]
    /\ UNCHANGED <<tab, tokens, key, reachable, own>>

NewWindow(w) ==
    /\ own[w] + other[w] > 0
    /\ own' = [own EXCEPT ![w] = 0] /\ other' = [other EXCEPT ![w] = 0]
    /\ UNCHANGED <<tab, tokens, key, reachable>>

-----------------------------------------------------------------------------
(* The pages.                                                              *)

SetSession(t) == token' = t /\ user' = t

(* The login page has got a token and opens the next page.                 *)
Login ==
    /\ page = "public" /\ Len(tokens) < MaxTokens
    /\ tokens' = Append(tokens, [key |-> key, state |-> "valid"])
    /\ SetSession(Len(tokens) + 1)
    /\ Goto("leaving")
    /\ UNCHANGED <<watching, visible, call, key, own, other, reachable>>

(* Fault: the timer of the old page goes on.                               *)
BugUnload == UNCHANGED watching /\ call' = [i \in Calls |-> NoCall]

(* Fault: the answers reach the next page.                                 *)
BugKeepCalls == watching' = FALSE /\ UNCHANGED call

Unload == watching' = FALSE /\ call' = [i \in Calls |-> NoCall]

(* A page is opened by the script of the last one or by the user.          *)
OpenPublic ==
    /\ Goto("public") /\ Unload
    /\ UNCHANGED <<token, user, visible, service, reachable>>

(* requireAuth, up to the call.                                            *)
OpenGuarded ==
    /\ watching' = FALSE
    /\ \/ token = 0 /\ Goto("leaving") /\ call' = [i \in Calls |-> NoCall]
       \/ /\ token # 0 /\ Goto("loading")
          /\ \E i \in Calls :
                call' = [j \in Calls |->
                           IF j = i THEN [for |-> "guard", token |-> token, answer |-> "none"]
                           ELSE NoCall]
    /\ UNCHANGED <<token, user, visible, service, reachable>>

(* The timer fires; a hidden tab skips the round.                          *)
Poll(i) ==
    /\ watching /\ visible
    /\ call[i] = NoCall
    /\ call' = [call EXCEPT ![i] = [for |-> "watch", token |-> token, answer |-> "none"]]
    /\ UNCHANGED <<token, user, page, watching, visible, service, reachable>>

(* Fault: any failure counts as a rejection.                               *)
BugTokenRejected(c) == c.answer \in {"rejected", "trouble"}

(* tokenRejected: 401, 403 or 422.                                         *)
TokenRejected(c) == c.answer = "rejected"

(* The script goes on with the answer: me() stores the user, requireAuth   *)
(* starts the watch or says what is wrong, and both leave when rejected.   *)
Resume(i) ==
    /\ call[i].answer # "none"
    /\ \/ TokenRejected(call[i]) /\ Clear /\ watching' = FALSE /\ Goto("leaving")
       \/ /\ call[i].answer = "ok"
          /\ user' = call[i].token
          /\ watching' = (watching \/ call[i].for = "guard")
          /\ Goto(IF page = "loading" THEN "guarded" ELSE page)
          /\ UNCHANGED token
       \/ /\ call[i].answer = "trouble" /\ ~TokenRejected(call[i])
          /\ Goto(IF call[i].for = "guard" /\ page = "loading" THEN "failed" ELSE page)
          /\ UNCHANGED <<token, user, watching>>
    /\ call' = [call EXCEPT ![i] = NoCall]
    /\ UNCHANGED <<visible, service, reachable>>

(* The user logs out: POST /logout, which may fail, ...                    *)
Logout ==
    /\ page \in {"public", "loading", "failed", "guarded"} /\ token # 0
    /\ Goto("logout")
    /\ UNCHANGED <<token, user, watching, visible, call, service, reachable>>

ServeLogout ==
    /\ page = "logout"
    /\ \/ /\ reachable /\ Accepts(token)
          /\ tokens' = [tokens EXCEPT ![token].state = "revoked"]
       \/ UNCHANGED tokens
    /\ Goto("loggedOut")
    /\ UNCHANGED <<token, user, watching, visible, call, key, own, other, reachable>>

(* ... then the session is cleared and another page opened.                *)
FinishLogout ==
    /\ page = "loggedOut"
    /\ Clear /\ Goto("leaving")
    /\ UNCHANGED <<watching, visible, call, service, reachable>>

-----------------------------------------------------------------------------
HideOrShow ==
    /\ visible' = ~visible
    /\ UNCHANGED <<token, user, page, watching, call, service, reachable>>

FailOrRecover ==
    /\ reachable' = ~reachable
    /\ UNCHANGED <<tab, service>>

Page == Login \/ OpenPublic \/ OpenGuarded \/ Logout \/ ServeLogout \/ FinishLogout \/ HideOrShow

Others ==
    \/ \E t \in Issued : EndToken(t, "revoked") \/ EndToken(t, "expired")
    \/ RotateKey \/ FailOrRecover
    \/ \E w \in Workers : OtherRequest(w) \/ NewWindow(w)

Next ==
    \/ Page \/ Others
    \/ \E i \in Calls : Poll(i) \/ Lose(i) \/ Resume(i)
    \/ \E i \in Calls, w \in Workers : Serve(i, w)

(* The timer keeps firing, a service that is reachable answers, scripts    *)
(* run, and the windows of the limiter end.                                *)
Fairness ==
    /\ WF_vars(\E i \in Calls : Poll(i))
    /\ \A i \in Calls : WF_vars(\E w \in Workers : Serve(i, w)) /\ WF_vars(Resume(i))
    /\ \A w \in Workers : WF_vars(NewWindow(w))

Spec == Init /\ [][Next]_vars /\ Fairness

-----------------------------------------------------------------------------
(* Properties.                                                             *)

TypeOK ==
    /\ token \in 0..Len(tokens) /\ user \in 0..Len(tokens)
    /\ page \in Pages /\ watching \in BOOLEAN /\ visible \in BOOLEAN
    /\ call \in [Calls -> Call]
    /\ tokens \in Seq(Token) /\ Len(tokens) <= MaxTokens /\ key \in 1..MaxKeys
    /\ reachable \in BOOLEAN
    /\ \A w \in Workers : own[w] + other[w] \in 0..Limit
    /\ watching => page \notin {"public", "loading"}

(* The greeting names the user whose token the tab sends, however late an  *)
(* answer to an earlier user's check arrives.                              *)
GreetsTheOwner == token # 0 => user = token

(* Nobody but the user ends a session that is still good: not a network    *)
(* failure, not the rate limit, and not a rotation of the signing key,     *)
(* unless a second one follows while the token lives.                      *)
SignedOutForAReason ==
    [][token # 0 /\ token' = 0 =>
         \/ page = "loggedOut"
         \/ tokens[token].state # "valid"
         \/ key > tokens[token].key + 1]_vars

(* A guarded page that is looked at notices that its session has been      *)
(* revoked, as long as it reaches the service and the rate limit is not    *)
(* used up by other requests from its address.                             *)
RevocationNoticed ==
    page = "guarded" /\ token # 0 /\ tokens[token].state = "revoked" ~>
        token = 0 \/ page # "guarded" \/ ~visible \/ ~reachable
        \/ \E w \in Workers : other[w] > 0 /\ Full(w)

=============================================================================
