-------------------------- MODULE StorefrontProofs --------------------------
(***************************************************************************)
(* Proofs about Storefront, for every number of workers, of calls under    *)
(* way, of logins and of signing keys, and every limit.                    *)
(*                                                                         *)
(* The argument: an answer can be late, but a page that is left takes its  *)
(* calls along and a session begins on a page without calls, so every call *)
(* carries the token the tab holds, if it holds one (OneToken). What was   *)
(* rejected was rejected for a reason that does not pass (ForAReason).     *)
(***************************************************************************)
EXTENDS Storefront, TLAPS, SequenceTheorems

USE DEF Goto, NoCall

(* The counts of each worker's window.                                     *)
Counts ==
    /\ own \in [Workers -> Nat] /\ other \in [Workers -> Nat]
    /\ DOMAIN call = Calls

(* A page without requireAuth has made no call, and the calls of any other *)
(* page carry the token the tab holds, unless it holds none any more.      *)
OneToken ==
    \A i \in Calls : call[i] # NoCall =>
        /\ page # "public"
        /\ token \in {0, call[i].token}
        /\ call[i].token <= Len(tokens)

(* No token is signed with a key that is still to come.                    *)
KeysKnown == \A t \in Issued : tokens[t].key <= key

(* Why the service does not accept token t, now and ever after.            *)
Ended(t) == tokens[t].state # "valid" \/ key > tokens[t].key + 1

ForAReason ==
    \A i \in Calls : call[i].answer = "rejected" /\ call[i].token \in Issued => Ended(call[i].token)

IInv == TypeOK /\ Counts /\ OneToken /\ KeysKnown /\ ForAReason /\ GreetsTheOwner

-----------------------------------------------------------------------------
(* The tokens the service has issued.                                      *)

(* Issuing a token leaves the ones issued before as they were.             *)
LEMMA TokenIssued ==
  ASSUME tokens \in Seq(Token), NEW n \in Token, tokens' = Append(tokens, n)
  PROVE  /\ tokens' \in Seq(Token) /\ Len(tokens') = Len(tokens) + 1
         /\ tokens'[Len(tokens) + 1] = n
         /\ \A t \in Issued : t \in Issued' /\ tokens'[t] = tokens[t]
         /\ \A t \in Issued' : t \in Issued \/ t = Len(tokens) + 1
  BY AppendProperties DEF Issued

(* The end of a token changes nothing but its state.                       *)
LEMMA TokenEnded ==
  ASSUME tokens \in Seq(Token), NEW t \in Issued, NEW s \in {"revoked", "expired"},
         tokens' = [tokens EXCEPT ![t].state = s]
  PROVE  /\ tokens' \in Seq(Token) /\ Len(tokens') = Len(tokens) /\ Issued' = Issued
         /\ \A u \in Issued : /\ tokens'[u].key = tokens[u].key
                              /\ tokens'[u].state = IF u = t THEN s ELSE tokens[u].state
<1>1. tokens[t] \in Token
  BY ElementOfSeq DEF Issued
<1>2. tokens' = [tokens EXCEPT ![t] = [tokens[t] EXCEPT !.state = s]]
  OBVIOUS
<1>3. [tokens[t] EXCEPT !.state = s] \in Token
  BY <1>1 DEF Token
<1>4. tokens' \in Seq(Token) /\ Len(tokens') = Len(tokens)
  BY <1>2, <1>3, ExceptSeq DEF Issued
<1>5. ASSUME NEW u \in Issued
      PROVE  tokens'[u].key = tokens[u].key
             /\ tokens'[u].state = IF u = t THEN s ELSE tokens[u].state
  BY <1>1, <1>2 DEF Issued, Token
<1> QED BY <1>4, <1>5 DEF Issued

(* What becomes of the tokens and keys: tokens are added and end, keys are *)
(* replaced by newer ones.                                                 *)
Onward ==
    /\ key \in Nat /\ key' \in Nat /\ key <= key'
    /\ Len(tokens) \in Nat /\ Len(tokens') \in Nat /\ Len(tokens) <= Len(tokens')
    /\ \A t \in Issued : /\ t \in Issued' /\ tokens'[t].key = tokens[t].key
                         /\ tokens[t].state # "valid" => tokens'[t].state # "valid"

(* A token the service has a reason to reject is never accepted again.     *)
LEMMA EndedForGood ==
  ASSUME TypeOK, Onward, NEW t \in Issued, Ended(t)
  PROVE  Ended(t)'
<1>1. tokens[t] \in Token
  BY ElementOfSeq DEF TypeOK, Issued
<1>2. tokens[t].key \in Nat
  BY <1>1 DEF Token
<1> QED BY <1>2 DEF Onward, Ended

(* Whatever happens, tokens and keys only go on.                           *)
LEMMA GoesOn ==
  ASSUME TypeOK, [Next]_vars
  PROVE  Onward
<1>1. /\ key \in Nat /\ Len(tokens) \in Nat /\ tokens \in Seq(Token)
  BY LenProperties DEF TypeOK
<1>2. CASE UNCHANGED <<tokens, key>>
  BY <1>1, <1>2 DEF Onward, Issued
<1>3. CASE Login
  <2>1. [key |-> key, state |-> "valid"] \in Token
    BY DEF TypeOK, Token
  <2> QED BY <1>1, <1>3, <2>1, TokenIssued DEF Login, Onward, Issued
<1>4. CASE ServeLogout
  <2>1. CASE tokens' = [tokens EXCEPT ![token].state = "revoked"] /\ Accepts(token)
    <3>1. token \in Issued
      BY <2>1 DEF Accepts
    <3>2. /\ Len(tokens') = Len(tokens) /\ Issued' = Issued
          /\ \A u \in Issued : tokens'[u].key = tokens[u].key
                              /\ tokens'[u].state = IF u = token THEN "revoked"
                                                    ELSE tokens[u].state
      BY <1>1, <2>1, <3>1, TokenEnded
    <3> QED BY <1>1, <1>4, <3>2 DEF ServeLogout, Onward
  <2> QED BY <1>2, <1>4, <2>1 DEF ServeLogout
<1>5. ASSUME NEW t \in Issued, NEW s \in {"revoked", "expired"}, EndToken(t, s) PROVE Onward
  <2>1. /\ Len(tokens') = Len(tokens) /\ Issued' = Issued
        /\ \A u \in Issued : tokens'[u].key = tokens[u].key
                            /\ tokens'[u].state = IF u = t THEN s ELSE tokens[u].state
    BY <1>1, <1>5, TokenEnded DEF EndToken
  <2> QED BY <1>1, <1>5, <2>1 DEF EndToken, Onward
<1>6. CASE RotateKey
  BY <1>1, <1>6 DEF RotateKey, Onward, Issued
<1> QED BY <1>2, <1>3, <1>4, <1>5, <1>6
    DEF Next, Page, Others, OpenPublic, OpenGuarded, Logout, FinishLogout, HideOrShow,
        FailOrRecover, OtherRequest, NewWindow, Poll, Lose, Resume, Serve, vars, tab, service

(* A call that is sent is a call of /me for the token of the moment.       *)
LEMMA CallType ==
  ASSUME TypeOK, NEW f \in {"guard", "watch"}
  PROVE  [for |-> f, token |-> token, answer |-> "none"] \in Call
<1>1. token \in 0..MaxTokens
  BY LenProperties, BoundsAssumption DEF TypeOK
<1> QED BY <1>1 DEF Call

(* An answer changes nothing of a call but its answer.                     *)
LEMMA AnswerType ==
  ASSUME NEW c \in Call, NEW a \in {"none", "ok", "rejected", "trouble"}
  PROVE  /\ [c EXCEPT !.answer = a] \in Call
         /\ [c EXCEPT !.answer = a].token = c.token /\ [c EXCEPT !.answer = a].answer = a
  BY DEF Call

(* Every step of the service, the network and the clock keeps the types.   *)
LEMMA ServiceType ==
  ASSUME IInv, Others \/ \E i \in Calls : Lose(i) \/ \E w \in Workers : Serve(i, w)
  PROVE  TypeOK' /\ Counts'
<1> USE DEF IInv
<1>1. CASE Others
  <2>1. ASSUME NEW t \in Issued, NEW s \in {"revoked", "expired"}, EndToken(t, s)
        PROVE  TypeOK' /\ Counts'
    <3>1. tokens' \in Seq(Token) /\ Len(tokens') = Len(tokens)
      BY <2>1, TokenEnded DEF EndToken, TypeOK
    <3> QED BY <2>1, <3>1 DEF EndToken, TypeOK, Counts, tab
  <2>2. CASE RotateKey
    BY <2>2, BoundsAssumption DEF RotateKey, TypeOK, Counts, tab
  <2>3. CASE FailOrRecover
    BY <2>3 DEF FailOrRecover, TypeOK, Counts, tab, service
  <2>4. ASSUME NEW w \in Workers, OtherRequest(w) \/ NewWindow(w) PROVE TypeOK' /\ Counts'
    <3>1. own' \in [Workers -> Nat] /\ other' \in [Workers -> Nat]
      BY <2>4 DEF OtherRequest, NewWindow, Counts
    <3>2. ASSUME NEW v \in Workers PROVE own'[v] + other'[v] \in 0..Limit
      <4>1. /\ own[v] \in Nat /\ other[v] \in Nat /\ own[v] + other[v] \in 0..Limit
            /\ Limit \in Nat
        BY BoundsAssumption DEF Counts, TypeOK
      <4>2. CASE OtherRequest(w)
        BY <4>1, <4>2 DEF OtherRequest, Counts, Full
      <4>3. CASE NewWindow(w)
        BY <4>1, <4>3 DEF NewWindow, Counts
      <4> QED BY <2>4, <4>2, <4>3
    <3>3. UNCHANGED <<tab, tokens, key, reachable>>
      BY <2>4 DEF OtherRequest, NewWindow
    <3> QED BY <3>1, <3>2, <3>3 DEF TypeOK, Counts, tab
  <2> QED BY <1>1, <2>1, <2>2, <2>3, <2>4 DEF Others
<1>2. ASSUME NEW i \in Calls, Lose(i) PROVE TypeOK' /\ Counts'
  BY <1>2, AnswerType DEF Lose, TypeOK, Counts, service
<1>3. ASSUME NEW i \in Calls, NEW w \in Workers, Serve(i, w) PROVE TypeOK' /\ Counts'
  <2>1. call' \in [Calls -> Call]
    <3>1. PICK a \in {"ok", "rejected", "trouble"} : call' = [call EXCEPT ![i].answer = a]
      BY <1>3 DEF Serve
    <3> QED BY <3>1, AnswerType DEF TypeOK
  <2>2. own' \in [Workers -> Nat]
    BY <1>3 DEF Serve, Counts
  <2>3. ASSUME NEW v \in Workers PROVE own'[v] + other'[v] \in 0..Limit
    <3>1. /\ own[v] \in Nat /\ other[v] \in Nat /\ own[v] + other[v] \in 0..Limit
          /\ Limit \in Nat
      BY BoundsAssumption DEF Counts, TypeOK
    <3> QED BY <1>3, <3>1 DEF Serve, Counts, Full
  <2> QED BY <1>3, <2>1, <2>2, <2>3 DEF Serve, TypeOK, Counts
<1> QED BY <1>1, <1>2, <1>3

(* Every step of a page keeps the types.                                   *)
LEMMA PageType ==
  ASSUME IInv, Page \/ \E i \in Calls : Poll(i) \/ Resume(i)
  PROVE  TypeOK' /\ Counts'
<1> USE DEF IInv, Pages
<1>1. NoCall \in Call /\ Len(tokens) \in Nat
  BY LenProperties, BoundsAssumption DEF Call, TypeOK
<1>2. CASE Login
  <2>1. [key |-> key, state |-> "valid"] \in Token
    BY DEF TypeOK, Token
  <2>2. tokens' \in Seq(Token) /\ Len(tokens') = Len(tokens) + 1
    BY <1>2, <2>1, TokenIssued DEF Login, TypeOK
  <2> QED BY <1>1, <1>2, <2>2, BoundsAssumption DEF Login, SetSession, TypeOK, Counts
<1>3. CASE OpenPublic \/ OpenGuarded
  <2>1. call' \in [Calls -> Call]
    BY <1>1, <1>3, CallType DEF OpenPublic, OpenGuarded, Unload
  <2> QED BY <1>1, <1>3, <2>1 DEF OpenPublic, OpenGuarded, Unload, TypeOK, Counts, service
<1>4. CASE Logout \/ FinishLogout \/ HideOrShow
  <2>1. /\ UNCHANGED <<watching, call, service, reachable>>
        /\ page' \in Pages /\ (page' = page \/ page' \in {"logout", "leaving"})
        /\ token' \in {0, token} /\ user' \in {0, user}
    BY <1>4 DEF Logout, FinishLogout, HideOrShow, Clear, TypeOK
  <2>2. visible' \in BOOLEAN
    BY <1>4 DEF Logout, FinishLogout, HideOrShow, TypeOK
  <2> QED BY <1>1, <2>1, <2>2 DEF TypeOK, Counts, service
<1>5. CASE ServeLogout
  <2>1. tokens' \in Seq(Token) /\ Len(tokens') = Len(tokens)
    BY <1>5, TokenEnded DEF ServeLogout, Accepts, TypeOK
  <2> QED BY <1>5, <2>1 DEF ServeLogout, TypeOK, Counts
<1>6. ASSUME NEW i \in Calls, Poll(i) PROVE TypeOK' /\ Counts'
  BY <1>6, CallType DEF Poll, TypeOK, Counts, service
<1>7. ASSUME NEW i \in Calls, Resume(i) PROVE TypeOK' /\ Counts'
  <2>1. call' \in [Calls -> Call] /\ DOMAIN call' = Calls
    BY <1>1, <1>7 DEF Resume, TypeOK
  <2>2. call[i] \in Call /\ call[i].token \in 0..Len(tokens)
    BY <1>1, <1>7 DEF Resume, OneToken, TypeOK, Call
  <2>3. page # "public"
    BY <1>7 DEF Resume, OneToken
  <2>4. UNCHANGED <<visible, tokens, key, reachable, own, other>>
    BY <1>7 DEF Resume, service
  <2>5. token' \in 0..Len(tokens) /\ user' \in 0..Len(tokens)
    BY <1>1, <1>7, <2>2 DEF Resume, Clear, TypeOK
  <2>6. /\ page' \in Pages /\ watching' \in BOOLEAN
        /\ watching' => page' \notin {"public", "loading"}
    <3>1. CASE call[i].answer = "ok"
      <4>1. page' \in Pages /\ page' \notin {"public", "loading"}
        BY <1>7, <2>3, <3>1 DEF Resume, TypeOK, TokenRejected
      <4>2. watching' \in BOOLEAN
        BY <1>7, <3>1 DEF Resume, TypeOK, TokenRejected
      <4> QED BY <4>1, <4>2
    <3>2. CASE call[i].answer = "rejected"
      BY <1>7, <3>2 DEF Resume, TypeOK, TokenRejected
    <3>3. CASE call[i].answer = "trouble"
      BY <1>7, <3>3 DEF Resume, TypeOK, TokenRejected
    <3> QED BY <1>7, <3>1, <3>2, <3>3 DEF Resume, TokenRejected
  <2> QED BY <2>1, <2>4, <2>5, <2>6 DEF TypeOK, Counts
<1> QED BY <1>2, <1>3, <1>4, <1>5, <1>6, <1>7 DEF Page

(* Every step keeps the types.                                             *)
LEMMA TypeStep ==
  ASSUME IInv, [Next]_vars
  PROVE  TypeOK' /\ Counts'
<1>1. CASE UNCHANGED vars
  BY <1>1 DEF vars, tab, service, IInv, TypeOK, Counts
<1> QED BY <1>1, ServiceType, PageType DEF Next

-----------------------------------------------------------------------------
(* Every step keeps the calls of a page at the token of the tab.           *)
LEMMA OneTokenStep ==
  ASSUME IInv, [Next]_vars
  PROVE  OneToken'
<1> USE DEF IInv
<1>1. Len(tokens) \in Nat /\ Len(tokens') \in Nat /\ Len(tokens) <= Len(tokens')
  BY GoesOn DEF Onward
<1>2. ASSUME NEW i \in Calls PROVE call[i] \in Call /\ call[i].token \in Nat
  BY DEF TypeOK, Call
<1>3. CASE Login
  <2>1. \A i \in Calls : call'[i] = NoCall
    BY <1>3 DEF Login, OneToken
  <2> QED BY <2>1 DEF OneToken
<1>4. CASE OpenPublic \/ (OpenGuarded /\ token = 0)
  BY <1>4 DEF OpenPublic, OpenGuarded, Unload, OneToken
<1>5. CASE OpenGuarded /\ token # 0
  BY <1>5 DEF OpenGuarded, OneToken, service, TypeOK
<1>6. CASE Logout \/ ServeLogout \/ FinishLogout
  <2>1. call' = call /\ token' \in {0, token} /\ page' # "public"
    BY <1>6 DEF Logout, ServeLogout, FinishLogout, Clear
  <2> QED BY <1>1, <1>2, <2>1 DEF OneToken
<1>7. ASSUME NEW i \in Calls, Poll(i) PROVE OneToken'
  BY <1>7 DEF Poll, OneToken, TypeOK, service
<1>8. ASSUME NEW i \in Calls, Resume(i) PROVE OneToken'
  <2>1. /\ page # "public" /\ page' # "public" /\ token' \in {0, token} /\ tokens' = tokens
        /\ \A j \in Calls : call'[j] # NoCall => call'[j] = call[j]
    BY <1>8 DEF Resume, OneToken, Clear, TypeOK, service
  <2> QED BY <2>1 DEF OneToken
<1>9. ASSUME NEW i \in Calls, \/ Lose(i) \/ \E w \in Workers : Serve(i, w)
      PROVE  OneToken'
  <2>1. PICK a \in {"ok", "rejected", "trouble"} :
           call[i] # NoCall /\ call' = [call EXCEPT ![i].answer = a]
    BY <1>9 DEF Lose, Serve
  <2>2. \A j \in Calls : call'[j].token = call[j].token /\ (call'[j] # NoCall => call[j] # NoCall)
    BY <1>2, <2>1, AnswerType DEF TypeOK
  <2>3. UNCHANGED <<token, page, tokens>>
    BY <1>9 DEF Lose, Serve, service
  <2> QED BY <2>2, <2>3 DEF OneToken
<1>10. CASE Others \/ HideOrShow \/ UNCHANGED vars
  <2>1. UNCHANGED <<token, page, call>>
    BY <1>10 DEF Others, EndToken, RotateKey, FailOrRecover, OtherRequest, NewWindow, HideOrShow,
                 vars, tab
  <2> QED BY <1>1, <1>2, <2>1 DEF OneToken
<1> QED BY <1>3, <1>4, <1>5, <1>6, <1>7, <1>8, <1>9, <1>10 DEF Next, Page, OpenGuarded

(* Every step keeps the greeting in line with the token.                   *)
LEMMA GreetingStep ==
  ASSUME IInv, [Next]_vars
  PROVE  GreetsTheOwner'
<1> USE DEF IInv
<1>1. ASSUME NEW i \in Calls, Resume(i) PROVE GreetsTheOwner'
  BY <1>1 DEF Resume, OneToken, GreetsTheOwner, Clear, TypeOK
<1>2. CASE Login
  BY <1>2 DEF Login, SetSession, GreetsTheOwner
<1>3. CASE FinishLogout
  BY <1>3 DEF FinishLogout, Clear, GreetsTheOwner
<1>4. CASE UNCHANGED <<token, user>>
  BY <1>4 DEF GreetsTheOwner
<1> QED BY <1>1, <1>2, <1>3, <1>4
    DEF Next, Page, Others, OpenPublic, OpenGuarded, Logout, ServeLogout, HideOrShow, EndToken,
        RotateKey, FailOrRecover, OtherRequest, NewWindow, Poll, Lose, Serve, vars, tab

(* Every step keeps the keys of the tokens known to the service.           *)
LEMMA KeysKnownStep ==
  ASSUME IInv, [Next]_vars
  PROVE  KeysKnown'
<1> USE DEF IInv
<1>1. Onward
  BY GoesOn
<1>2. ASSUME NEW t \in Issued' PROVE t \in Issued \/ tokens'[t].key = key
  <2>1. CASE Login
    <3>1. [key |-> key, state |-> "valid"] \in Token
      BY DEF TypeOK, Token
    <3> QED BY <2>1, <3>1, TokenIssued DEF Login, TypeOK
  <2>2. CASE ServeLogout
    <3>1. CASE tokens' = [tokens EXCEPT ![token].state = "revoked"]
      BY <3>1 DEF Issued
    <3> QED BY <2>2, <3>1 DEF ServeLogout, Issued
  <2>3. ASSUME NEW u \in Issued, NEW s \in {"revoked", "expired"}, EndToken(u, s)
        PROVE  t \in Issued
    BY <2>3 DEF EndToken, Issued
  <2> QED BY <2>1, <2>2, <2>3
      DEF Next, Page, Others, OpenPublic, OpenGuarded, Logout, FinishLogout, HideOrShow, Issued,
          RotateKey, FailOrRecover, OtherRequest, NewWindow, Poll, Lose, Resume, Serve, vars,
          service
<1>3. ASSUME NEW t \in Issued PROVE tokens'[t].key <= key'
  <2>1. tokens[t] \in Token
    BY ElementOfSeq DEF TypeOK, Issued
  <2>2. tokens[t].key \in Nat /\ tokens[t].key <= key
    BY <2>1 DEF Token, KeysKnown
  <2> QED BY <1>1, <2>2 DEF Onward
<1> QED BY <1>1, <1>2, <1>3 DEF KeysKnown, Onward

(* The service rejects an issued token for a reason.                       *)
LEMMA RejectedForAReason ==
  ASSUME IInv, NEW t \in Issued, ~Accepts(t)
  PROVE  Ended(t)
<1>1. tokens[t] \in Token
  BY ElementOfSeq DEF IInv, TypeOK, Issued
<1>2. tokens[t].key \in Nat /\ tokens[t].key <= key /\ key \in Nat
  BY <1>1 DEF IInv, TypeOK, Token, KeysKnown
<1> QED BY <1>2 DEF Accepts, Verifies, Ended

(* Every step keeps the reasons for which calls were rejected.             *)
LEMMA ForAReasonStep ==
  ASSUME IInv, [Next]_vars
  PROVE  ForAReason'
<1> USE DEF IInv
<1> SUFFICES ASSUME NEW i \in Calls, NEW t \in Issued',
                    call'[i].answer = "rejected", call'[i].token = t
             PROVE  Ended(t)'
  BY DEF ForAReason, Ended
<1>1. /\ Onward /\ call[i] \in Call /\ call[i].token \in Nat
      /\ (call[i] # NoCall => call[i].token <= Len(tokens))
  BY GoesOn DEF TypeOK, Call, OneToken
<1>2. ASSUME call'[i] = call[i] PROVE Ended(t)'
  <2>1. call[i] # NoCall /\ t <= Len(tokens) /\ Len(tokens) \in Nat
    BY <1>1, <1>2, LenProperties DEF TypeOK
  <2>2. t \in Issued
    BY <2>1, LenProperties DEF TypeOK, Issued
  <2>3. Ended(t)
    BY <1>2, <2>2 DEF ForAReason
  <2> QED BY <1>1, <2>2, <2>3, EndedForGood
<1>3. ASSUME NEW w \in Workers, NEW j \in Calls, Serve(j, w) PROVE Ended(t)'
  <2>1. CASE j # i
    <3>1. call'[i] = call[i]
      BY <1>3, <2>1 DEF Serve, TypeOK
    <3> QED BY <1>2, <3>1
  <2>2. CASE j = i
    <3>1. call[i].token = t /\ ~Accepts(t)
      BY <1>1, <1>3, <2>2 DEF Serve, TypeOK, Call
    <3>2. t \in Issued
      BY <1>3 DEF Serve, Issued
    <3> QED BY <1>1, <3>1, <3>2, RejectedForAReason, EndedForGood
  <2> QED BY <2>1, <2>2
<1>4. ASSUME NEW j \in Calls, Lose(j) \/ Poll(j) \/ Resume(j) PROVE Ended(t)'
  <2>1. call'[i] = call[i]
    BY <1>1, <1>4 DEF Lose, Poll, Resume, TypeOK, Call
  <2> QED BY <1>2, <2>1
<1>5. CASE Page
  <2>1. call'[i] = call[i] \/ call'[i].answer = "none"
    BY <1>5 DEF Page, Login, OpenPublic, OpenGuarded, Unload, Logout, ServeLogout, FinishLogout,
                HideOrShow
  <2> QED BY <1>2, <2>1
<1>6. CASE Others \/ UNCHANGED vars
  <2>1. call' = call
    BY <1>6 DEF Others, EndToken, RotateKey, FailOrRecover, OtherRequest, NewWindow, vars, tab
  <2> QED BY <1>2, <2>1
<1> QED BY <1>3, <1>4, <1>5, <1>6 DEF Next

(* The whole invariant holds in the beginning and is kept by every step.   *)
LEMMA InitInv == Init => IInv
<1> SUFFICES ASSUME Init PROVE IInv
  OBVIOUS
<1>1. tokens \in Seq(Token) /\ Len(tokens) = 0 /\ Issued = {}
  BY EmptySeq DEF Init, Issued
<1>2. NoCall \in Call
  BY BoundsAssumption DEF Call
<1>3. TypeOK /\ Counts
  <2>1. ASSUME NEW w \in Workers PROVE own[w] + other[w] \in 0..Limit
    <3>1. own[w] = 0 /\ other[w] = 0 /\ Limit \in Nat
      BY BoundsAssumption DEF Init
    <3> QED BY <3>1
  <2>2. page \in Pages /\ key \in 1..MaxKeys /\ Len(tokens) <= MaxTokens
    BY <1>1, BoundsAssumption DEF Init, Pages
  <2>3. call \in [Calls -> Call] /\ Counts
    BY <1>2 DEF Init, Counts
  <2>4. token \in 0..Len(tokens) /\ user \in 0..Len(tokens)
    BY <1>1 DEF Init
  <2>5. /\ watching \in BOOLEAN /\ visible \in BOOLEAN /\ reachable \in BOOLEAN
        /\ watching => page \notin {"public", "loading"}
    BY DEF Init
  <2> QED BY <1>1, <2>1, <2>2, <2>3, <2>4, <2>5 DEF TypeOK
<1>4. OneToken /\ KeysKnown /\ ForAReason /\ GreetsTheOwner
  BY <1>1 DEF Init, OneToken, KeysKnown, ForAReason, GreetsTheOwner
<1> QED BY <1>3, <1>4 DEF IInv

LEMMA StepInv == IInv /\ [Next]_vars => IInv'
  BY TypeStep, OneTokenStep, KeysKnownStep, ForAReasonStep, GreetingStep DEF IInv

-----------------------------------------------------------------------------
(* Every variable of the tab and of the service keeps its type, a page     *)
(* that is public or still loading is never watched, and no worker counts  *)
(* past its limit.                                                         *)
THEOREM TypeCorrect == Spec => []TypeOK
<1>1. IInv => TypeOK
  BY DEF IInv
<1> QED BY InitInv, StepInv, <1>1, PTL DEF Spec

(* However late answers arrive and however many people use the tab one     *)
(* after the other, the name it shows is that of its token's owner.        *)
THEOREM GreetingIsRight == Spec => []GreetsTheOwner
<1>1. IInv => GreetsTheOwner
  BY DEF IInv
<1> QED BY InitInv, StepInv, <1>1, PTL DEF Spec

(* A step that takes the token from the tab is the user's, or follows the  *)
(* rejection of a token that had ended, or outlived two key rotations.     *)
LEMMA SignedOut ==
  ASSUME IInv, [Next]_vars, token # 0, token' = 0
  PROVE  page = "loggedOut" \/ Ended(token)
<1> USE DEF IInv
<1>1. Len(tokens) \in Nat /\ token \in Issued
  BY LenProperties DEF TypeOK, Issued
<1>2. ASSUME NEW i \in Calls, Resume(i) PROVE Ended(token)
  <2>1. call[i].answer = "rejected" /\ call[i] # NoCall
    BY <1>2 DEF Resume, TokenRejected
  <2>2. call[i].token = token
    BY <2>1 DEF OneToken
  <2> QED BY <1>1, <2>1, <2>2 DEF ForAReason
<1>3. CASE FinishLogout
  BY <1>3 DEF FinishLogout
<1>4. CASE Login
  BY <1>1, <1>4 DEF Login, SetSession
<1>5. token' # token
  OBVIOUS
<1> QED BY <1>2, <1>3, <1>4, <1>5
    DEF Next, Page, Others, OpenPublic, OpenGuarded, Logout, ServeLogout, HideOrShow, EndToken,
        RotateKey, FailOrRecover, OtherRequest, NewWindow, Poll, Lose, Serve, vars, tab

(* Network failures, the rate limit, late answers and one rotation of the  *)
(* signing key never sign a user out.                                      *)
THEOREM NeverSignedOut == Spec => SignedOutForAReason
<1>1. IInv /\ [Next]_vars =>
        [token # 0 /\ token' = 0 =>
           \/ page = "loggedOut"
           \/ tokens[token].state # "valid"
           \/ key > tokens[token].key + 1]_vars
  BY SignedOut DEF Ended
<1> QED BY InitInv, StepInv, <1>1, PTL DEF Spec, SignedOutForAReason

=============================================================================
