--------------------------- MODULE SessionsProofs ----------------------------
(* The invariants of Sessions, for any number of attempts, callbacks, tabs  *)
(* and policy versions.                                                     *)
EXTENDS Sessions, TLAPS

\* A callback beyond the consuming UPDATE holds its attempt, alone; what it is
\* about to answer is stored; a logout under way ends a session that is.
SignInInv ==
    /\ \A c \in Callbacks : login[c] # None =>
            attempt[login[c].attempt] = "consumed"
    /\ \A c, d \in Callbacks :
            /\ login[c] # None
            /\ login[d] # None
            /\ login[c].attempt = login[d].attempt
            => c = d
    /\ \A c \in Callbacks : login[c] # None /\ login[c].at = "stored" =>
            session[c] # "none"
    /\ \A t \in Tabs : request[t] # None /\ request[t].op = "logout" =>
            session[request[t].session] # "none"

\* A form belongs to an open tab, and what it lists was required and seen by
\* the member; a request holds its form, and is not refused yet.
FormInv ==
    /\ acks \subseteq seen
    /\ \A t \in Tabs : form[t] # None =>
            /\ tab[t] # None
            /\ form[t].sent \subseteq seen
            /\ form[t].latest \subseteq required
    /\ \A t \in Tabs : request[t] # None /\ request[t].op = "onboarding" =>
            form[t] # None /\ t \notin outdated
    /\ \A t \in outdated :
            /\ form[t] # None
            /\ form[t].sent = form[t].latest => form[t].latest # Latest(required)

IInv == TypeOK /\ SignInInv /\ FormInv

\* Once a version that counts has become required, the latest versions are
\* never again those of before: a new version either is the highest of its
\* kind, or changes nothing.
LEMMA LatestMovesOn ==
    ASSUME NEW old, NEW R \in SUBSET Policies, NEW p \in Policies, p \notin R,
           old \subseteq R, old # Latest(R)
    PROVE  old # Latest(R \cup {p})
<1> SUFFICES ASSUME old = Latest(R \cup {p}) PROVE FALSE
  OBVIOUS
<1>1. p \notin Latest(R \cup {p})
  OBVIOUS
<1>2. \A x \in R : x.version \in Nat
  BY PoliciesAssumption
<1>3. p.version \in Nat
  BY PoliciesAssumption
<1>4. PICK q \in R : q.kind = p.kind /\ ~(q.version <= p.version)
  <2>1. PICK q \in R \cup {p} : q.kind = p.kind /\ ~(q.version <= p.version)
    BY <1>1 DEF Latest
  <2>2. q # p
    BY <2>1, <1>3
  <2> QED BY <2>1, <2>2
<1>5. ASSUME NEW x \in Latest(R) PROVE x \in Latest(R \cup {p})
  <2>1. x \in R /\ \A y \in R : y.kind = x.kind => y.version <= x.version
    BY DEF Latest
  <2>2. p.kind = x.kind => p.version <= x.version
    <3> SUFFICES ASSUME p.kind = x.kind PROVE p.version <= x.version
      OBVIOUS
    <3>1. q.version <= x.version
      BY <1>4, <2>1
    <3> QED BY <1>4, <1>2, <1>3, <2>1, <3>1
  <2> QED BY <2>1, <2>2 DEF Latest
<1>6. ASSUME NEW x \in Latest(R \cup {p}) PROVE x \in Latest(R)
  BY <1>1 DEF Latest
<1>7. Latest(R) = Latest(R \cup {p})
  BY <1>5, <1>6
<1> QED BY <1>7

LEMMA InitIsSound == Init => IInv
  BY NoneAssumption DEF Init, IInv, TypeOK, SignInInv, FormInv

\* The steps of signing in touch neither the policies nor the tabs.
LEMMA SigningInIsSound ==
    ASSUME IInv,
           \/ \E a \in Attempts : StartOAuth(a) \/ AttemptExpires(a)
           \/ \E c \in Callbacks, a \in Attempts : ConsumeAttempt(c, a)
           \/ \E c \in Callbacks : \/ RefuseIdentity(c)
                                   \/ CreateSession(c)
                                   \/ AnswerCallback(c)
                                   \/ SessionExpires(c)
           \/ SetAllowlist
    PROVE  IInv'
<1> USE DEF IInv, account, browser
<1>1. ASSUME NEW a \in Attempts, StartOAuth(a) \/ AttemptExpires(a) PROVE IInv'
  <2>1. TypeOK'
    BY <1>1 DEF StartOAuth, AttemptExpires, TypeOK
  <2>2. SignInInv'
    <3>1. \A b \in Attempts : attempt[b] = "consumed" => attempt'[b] = "consumed"
      BY <1>1 DEF StartOAuth, AttemptExpires, TypeOK
    <3>2. \A c \in Callbacks : login[c] # None => login[c].attempt \in Attempts
      BY DEF TypeOK, Logins
    <3>3. UNCHANGED <<login, session, request>>
      BY <1>1 DEF StartOAuth, AttemptExpires
    <3> QED BY <3>1, <3>2, <3>3 DEF SignInInv
  <2>3. FormInv'
    BY <1>1 DEF StartOAuth, AttemptExpires, FormInv, Latest
  <2> QED BY <2>1, <2>2, <2>3
<1>2. ASSUME NEW c \in Callbacks, NEW a \in Attempts, ConsumeAttempt(c, a)
      PROVE  IInv'
  <2> DEFINE l == [attempt |-> a, at |-> "exchanging"]
  <2>1. l \in Logins /\ l # None /\ l.attempt = a
    BY NoneAssumption DEF Logins
  <2>2. /\ login' = [login EXCEPT ![c] = l]
        /\ login[c] = None
        /\ attempt[a] = "open"
        /\ attempt' = [attempt EXCEPT ![a] = "consumed"]
        /\ UNCHANGED <<session, listed, required, acks, age, seen, cookie, tab,
                       form, request, outdated>>
    BY <1>2 DEF ConsumeAttempt, Consumable
  <2> HIDE DEF l
  <2>3. TypeOK'
    BY <2>1, <2>2 DEF TypeOK
  <2>4. SignInInv'
    BY <2>1, <2>2 DEF TypeOK, SignInInv, l
  <2>5. FormInv'
    BY <2>2 DEF FormInv, Latest
  <2> QED BY <2>3, <2>4, <2>5
<1>3. ASSUME NEW c \in Callbacks, RefuseIdentity(c) \/ CreateSession(c)
                                    \/ AnswerCallback(c)
      PROVE  IInv'
  <2>1. PICK stage \in {"stored", "ended"} :
            login' = [login EXCEPT ![c].at = stage]
    BY <1>3 DEF RefuseIdentity, CreateSession, AnswerCallback
  <2>2. login[c] \in Logins /\ login[c] # None
    BY <1>3 DEF RefuseIdentity, CreateSession, AnswerCallback, TypeOK
  <2>3. /\ login'[c] \in Logins
        /\ login'[c] # None
        /\ login'[c].attempt = login[c].attempt
        /\ login'[c].at = stage
        /\ \A d \in Callbacks : d # c => login'[d] = login[d]
    BY <2>1, <2>2, NoneAssumption DEF TypeOK, Logins
  <2>4. TypeOK'
    <3>1. login' \in [Callbacks -> Logins \cup {None}]
      BY <2>1, <2>3 DEF TypeOK
    <3>2. /\ session' \in [Callbacks -> {"none", "live", "ended"}]
          /\ \A d \in Callbacks : d # c => session'[d] = session[d]
          /\ session[c] # "none" => session'[c] # "none"
      BY <1>3 DEF RefuseIdentity, CreateSession, AnswerCallback, TypeOK
    <3>3. /\ cookie' \in {cookie, c}
          /\ cookie' = cookie \/ session'[c] # "none"
      <4>1. CASE RefuseIdentity(c) \/ CreateSession(c)
        BY <4>1 DEF RefuseIdentity, CreateSession
      <4>2. CASE AnswerCallback(c)
        BY <4>2 DEF AnswerCallback, SignInInv
      <4> QED BY <1>3, <4>1, <4>2
    <3>4. UNCHANGED <<attempt, listed, account, tab, form, request, outdated>>
      BY <1>3 DEF RefuseIdentity, CreateSession, AnswerCallback
    <3> QED BY <2>3, <3>1, <3>2, <3>3, <3>4 DEF TypeOK
  <2>5. SignInInv'
    <3>1. /\ attempt' = attempt
          /\ request' = request
          /\ \A d \in Callbacks : session[d] # "none" => session'[d] # "none"
      BY <1>3 DEF RefuseIdentity, CreateSession, AnswerCallback, TypeOK
    <3>2. \A t \in Tabs : request[t] # None /\ request[t].op = "logout" =>
              request[t].session \in Callbacks
      BY DEF TypeOK, Requests
    <3>3. stage = "stored" => session'[c] # "none"
      <4>1. CASE CreateSession(c)
        BY <4>1 DEF CreateSession, TypeOK
      <4>2. CASE RefuseIdentity(c) \/ AnswerCallback(c)
        BY <4>2, <2>2, <2>3 DEF RefuseIdentity, AnswerCallback, TypeOK, Logins
      <4> QED BY <1>3, <4>1, <4>2
    <3> QED BY <2>2, <2>3, <3>1, <3>2, <3>3 DEF SignInInv
  <2>6. FormInv'
    BY <1>3 DEF RefuseIdentity, CreateSession, AnswerCallback, FormInv, Latest
  <2> QED BY <2>4, <2>5, <2>6
<1>4. ASSUME NEW c \in Callbacks, SessionExpires(c) PROVE IInv'
  <2>1. TypeOK'
    BY <1>4 DEF SessionExpires, TypeOK
  <2>2. SignInInv'
    BY <1>4 DEF SessionExpires, TypeOK, SignInInv, Requests
  <2>3. FormInv'
    BY <1>4 DEF SessionExpires, FormInv, Latest
  <2> QED BY <2>1, <2>2, <2>3
<1>5. ASSUME SetAllowlist PROVE IInv'
  <2>1. TypeOK'
    BY <1>5 DEF SetAllowlist, TypeOK
  <2>2. SignInInv'
    BY <1>5 DEF SetAllowlist, SignInInv
  <2>3. FormInv'
    BY <1>5 DEF SetAllowlist, FormInv, Latest
  <2> QED BY <2>1, <2>2, <2>3
<1> QED BY <1>1, <1>2, <1>3, <1>4, <1>5

LEMMA RequirePolicyIsSound ==
    ASSUME IInv, NEW p \in Policies, RequirePolicy(p)
    PROVE  IInv'
<1>1. /\ required' = required \cup {p}
      /\ p \notin required
      /\ UNCHANGED <<attempt, login, session, listed, acks, age, seen, cookie,
                     tab, form, request, outdated>>
  BY DEF RequirePolicy, browser
<1>2. TypeOK'
  BY <1>1 DEF IInv, TypeOK
<1>3. SignInInv'
  BY <1>1 DEF IInv, SignInInv
<1>4. ASSUME NEW t \in outdated, form[t].sent = form[t].latest
      PROVE  form[t].latest # Latest(required')
  <2>1. /\ form[t].latest \subseteq required
        /\ form[t].latest # Latest(required)
        /\ required \in SUBSET Policies
    BY <1>4 DEF IInv, TypeOK, FormInv
  <2> QED BY <1>1, <2>1, LatestMovesOn
<1>5. FormInv'
  BY <1>1, <1>4 DEF IInv, TypeOK, FormInv, Latest
<1> QED BY <1>2, <1>3, <1>5 DEF IInv

\* Opening the page or its list: the last refusal is forgotten with the form.
LEMMA OpeningIsSound ==
    ASSUME IInv, NEW t \in Tabs, OpenApp(t) \/ ListPolicies(t)
    PROVE  IInv'
<1> USE NoneAssumption DEF IInv
<1>1. request[t] = None /\ outdated' = outdated \ {t}
  BY DEF OpenApp, ListPolicies
<1>2. CASE OpenApp(t)
  <2>1. /\ form' = [form EXCEPT ![t] = None]
        /\ UNCHANGED <<attempt, login, session, listed, required, acks, age,
                       seen, cookie, request>>
    BY <1>2 DEF OpenApp, account
  <2>2. tab' \in [Tabs -> OpenTabs \cup {None}]
    BY <1>2 DEF OpenApp, TypeOK, OpenTabs, Live
  <2>3. TypeOK'
    BY <1>1, <2>1, <2>2 DEF TypeOK
  <2>4. SignInInv'
    BY <2>1 DEF SignInInv
  <2>5. FormInv'
    BY <1>1, <1>2, <2>1 DEF OpenApp, TypeOK, FormInv, Latest
  <2> QED BY <2>3, <2>4, <2>5
<1>3. CASE ListPolicies(t)
  <2> DEFINE f == [sent |-> Latest(required) \ acks, latest |-> Latest(required)]
  <2>1. /\ form' = [form EXCEPT ![t] = f]
        /\ seen' = seen \cup (Latest(required) \ acks)
        /\ UNCHANGED <<attempt, login, session, listed, required, acks, age,
                       cookie, tab, request>>
        /\ tab[t] # None
    BY <1>3 DEF ListPolicies
  <2>2. Latest(required) \subseteq required
    BY DEF Latest
  <2>3. /\ f \in Forms
        /\ f.sent = Latest(required) \ acks
        /\ f.latest = Latest(required)
    BY <2>2 DEF TypeOK, Forms
  <2> HIDE DEF f
  <2>4. TypeOK'
    BY <1>1, <2>1, <2>2, <2>3 DEF TypeOK
  <2>5. SignInInv'
    BY <2>1 DEF SignInInv
  <2>6. FormInv'
    BY <1>1, <2>1, <2>2, <2>3 DEF TypeOK, FormInv, Latest
  <2> QED BY <2>4, <2>5, <2>6
<1> QED BY <1>2, <1>3

\* A request begins: its record is a request, and no other variable changes
\* but outdated.
LEMMA BeginningIsSound ==
    ASSUME IInv, NEW t \in Tabs, SubmitForm(t) \/ SignOut(t)
    PROVE  IInv'
<1> USE NoneAssumption DEF IInv
<1>1. UNCHANGED <<attempt, login, session, listed, required, acks, age, seen,
                  cookie, tab, form>>
  BY DEF SubmitForm, SignOut, account
<1>2. CASE SubmitForm(t)
  <2> DEFINE q == [op |-> "onboarding", at |-> "begun", listed |-> listed]
  <2>1. q \in Requests /\ q.op = "onboarding"
    BY DEF TypeOK, Requests
  <2>2. /\ request' = [request EXCEPT ![t] = q]
        /\ outdated' = outdated \ {t}
        /\ form[t] # None
    BY <1>2 DEF SubmitForm
  <2> HIDE DEF q
  <2>3. TypeOK'
    BY <1>1, <2>1, <2>2 DEF TypeOK
  <2>4. SignInInv'
    BY <1>1, <2>1, <2>2 DEF TypeOK, SignInInv
  <2>5. FormInv'
    BY <1>1, <2>1, <2>2 DEF TypeOK, FormInv, Latest
  <2> QED BY <2>3, <2>4, <2>5
<1>3. CASE SignOut(t)
  <2> DEFINE q == [op |-> "logout", at |-> "begun", session |-> cookie]
  <2>1. cookie \in Callbacks /\ session[cookie] # "none"
    BY <1>3 DEF SignOut, Authorised, Live, TypeOK
  <2>2. q \in Requests /\ q.op = "logout" /\ q.session = cookie
    BY <2>1 DEF Requests
  <2>3. request' = [request EXCEPT ![t] = q] /\ outdated' = outdated
    BY <1>3 DEF SignOut
  <2> HIDE DEF q
  <2>4. TypeOK'
    BY <1>1, <2>2, <2>3 DEF TypeOK
  <2>5. SignInInv'
    BY <1>1, <2>1, <2>2, <2>3 DEF TypeOK, SignInInv
  <2>6. FormInv'
    BY <1>1, <2>2, <2>3 DEF TypeOK, FormInv, Latest
  <2> QED BY <2>4, <2>5, <2>6
<1> QED BY <1>2, <1>3

\* A request moves on and stays the request it is.
LEMMA StageIsRequest ==
    ASSUME NEW r \in Requests, NEW stage \in {"begun", "writing", "stored"},
           r.op = "logout" => stage # "writing"
    PROVE  LET q == [r EXCEPT !.at = stage]
           IN  /\ q \in Requests
               /\ q.op = r.op
               /\ r.op = "logout" => q.session = r.session
<1>1. CASE r \in [op : {"onboarding"}, at : {"begun", "writing", "stored"},
                  listed : BOOLEAN]
  BY <1>1 DEF Requests
<1>2. CASE r \in [op : {"logout"}, at : {"begun", "stored"},
                  session : Callbacks]
  BY <1>2 DEF Requests
<1> QED BY <1>1, <1>2 DEF Requests

LEMMA CheckIsSound ==
    ASSUME IInv, NEW t \in Tabs, CheckForm(t)
    PROVE  IInv'
<1> USE NoneAssumption DEF IInv
<1>1. /\ request[t] \in Requests
      /\ request[t] # None
      /\ request[t].op = "onboarding"
      /\ form[t] # None
      /\ UNCHANGED <<attempt, login, session, listed, required, acks, age, seen,
                     cookie, tab, form>>
  BY DEF CheckForm, InRequest, TypeOK, FormInv, account
<1>2. CASE request'[t] = None
  <2>1. /\ request' = [request EXCEPT ![t] = None]
        /\ outdated' \in {outdated, outdated \cup {t}}
        /\ t \in outdated' => t \in outdated \/ form[t].sent # Latest(required)
    <3>1. request' # [request EXCEPT ![t].at = "writing"]
      <4> DEFINE q == [request[t] EXCEPT !.at = "writing"]
      <4>1. q \in Requests
        BY <1>1, StageIsRequest
      <4> HIDE DEF q
      <4>2. [request EXCEPT ![t].at = "writing"] = [request EXCEPT ![t] = q]
        BY DEF q
      <4> QED BY <1>2, <4>1, <4>2 DEF TypeOK
    <3> QED BY <3>1 DEF CheckForm, Ended
  <2>2. TypeOK'
    BY <1>1, <2>1 DEF TypeOK
  <2>3. SignInInv'
    BY <1>1, <2>1 DEF TypeOK, SignInInv
  <2>4. FormInv'
    BY <1>1, <2>1 DEF TypeOK, FormInv, Latest
  <2> QED BY <2>2, <2>3, <2>4
<1>3. CASE request'[t] # None
  <2> DEFINE q == [request[t] EXCEPT !.at = "writing"]
  <2>1. /\ request' = [request EXCEPT ![t] = q]
        /\ outdated' = outdated
    BY <1>3 DEF CheckForm, Ended, TypeOK
  <2>2. q \in Requests /\ q.op = "onboarding"
    BY <1>1, StageIsRequest
  <2> HIDE DEF q
  <2>3. TypeOK'
    BY <1>1, <2>1, <2>2 DEF TypeOK
  <2>4. SignInInv'
    BY <1>1, <2>1, <2>2 DEF TypeOK, SignInInv
  <2>5. FormInv'
    BY <1>1, <2>1, <2>2 DEF TypeOK, FormInv, Latest
  <2> QED BY <2>3, <2>4, <2>5
<1> QED BY <1>2, <1>3

LEMMA StoreIsSound ==
    ASSUME IInv, NEW t \in Tabs, StoreForm(t)
    PROVE  IInv'
<1> USE NoneAssumption DEF IInv
<1> DEFINE q == [request[t] EXCEPT !.at = "stored"]
<1>1. /\ request[t] \in Requests
      /\ request[t] # None
      /\ request[t].op = "onboarding"
      /\ form[t] # None
      /\ form[t].sent \subseteq seen
  BY DEF StoreForm, InRequest, TypeOK, FormInv
<1>2. q \in Requests /\ q.op = "onboarding"
  BY <1>1, StageIsRequest
<1>3. /\ request' = [request EXCEPT ![t] = q]
      /\ age' = TRUE
      /\ acks' = acks \cup form[t].sent
      /\ UNCHANGED <<attempt, login, session, listed, required, seen, cookie,
                     tab, form, outdated>>
  BY DEF StoreForm
<1> HIDE DEF q
<1>4. TypeOK'
  BY <1>1, <1>2, <1>3 DEF TypeOK
<1>5. SignInInv'
  BY <1>1, <1>2, <1>3 DEF TypeOK, SignInInv
<1>6. FormInv'
  BY <1>1, <1>2, <1>3 DEF TypeOK, FormInv, Latest
<1> QED BY <1>4, <1>5, <1>6

LEMMA RevokeIsSound ==
    ASSUME IInv, NEW t \in Tabs, RevokeSession(t)
    PROVE  IInv'
<1> USE NoneAssumption DEF IInv
<1> DEFINE q == [request[t] EXCEPT !.at = "stored"]
           s == request[t].session
<1>1. /\ request[t] \in Requests
      /\ request[t] # None
      /\ request[t].op = "logout"
  BY DEF RevokeSession, InRequest, TypeOK
<1>2. s \in Callbacks /\ session[s] # "none"
  BY <1>1 DEF Requests, SignInInv
<1>3. q \in Requests /\ q.op = "logout" /\ q.session = s
  BY <1>1, StageIsRequest
<1>4. /\ request' = [request EXCEPT ![t] = q]
      /\ session' = [session EXCEPT ![s] = "ended"]
      /\ UNCHANGED <<attempt, login, listed, required, acks, age, seen, cookie,
                     tab, form, outdated>>
  BY DEF RevokeSession, account
<1> HIDE DEF q, s
<1>5. TypeOK'
  BY <1>1, <1>2, <1>3, <1>4 DEF TypeOK
<1>6. SignInInv'
  <2>1. \A c \in Callbacks : session[c] # "none" => session'[c] # "none"
    BY <1>2, <1>4 DEF TypeOK
  <2>2. \A u \in Tabs : request[u] # None /\ request[u].op = "logout" =>
            request[u].session \in Callbacks
    BY DEF TypeOK, Requests
  <2> QED BY <1>2, <1>3, <1>4, <2>1, <2>2 DEF TypeOK, SignInInv
<1>7. FormInv'
  BY <1>1, <1>3, <1>4 DEF TypeOK, FormInv, Latest
<1> QED BY <1>5, <1>6, <1>7

\* The answers, and the requests that get none.
LEMMA EndingIsSound ==
    ASSUME IInv, NEW t \in Tabs,
           FormCompleted(t) \/ SignedOut(t) \/ RequestFails(t)
    PROVE  IInv'
<1> USE NoneAssumption DEF IInv
<1>1. /\ request' = [request EXCEPT ![t] = None]
      /\ cookie' \in {cookie, None}
      /\ UNCHANGED <<attempt, login, session, listed, required, acks, age, seen,
                     outdated>>
  BY DEF FormCompleted, SignedOut, RequestFails, Ended, account
<1>2. CASE form' = form /\ tab' = tab
  <2>1. TypeOK'
    BY <1>1, <1>2 DEF TypeOK
  <2>2. SignInInv'
    BY <1>1 DEF TypeOK, SignInInv
  <2>3. FormInv'
    BY <1>1, <1>2 DEF TypeOK, FormInv, Latest
  <2> QED BY <2>1, <2>2, <2>3
<1>3. CASE FormCompleted(t)
  <2>1. /\ form' = [form EXCEPT ![t] = None]
        /\ tab' = [tab EXCEPT ![t].gated = FALSE]
        /\ t \notin outdated
        /\ tab[t] \in OpenTabs
    BY <1>3 DEF FormCompleted, InRequest, TypeOK, FormInv
  <2>2. TypeOK'
    BY <1>1, <2>1 DEF TypeOK, OpenTabs
  <2>3. SignInInv'
    BY <1>1 DEF TypeOK, SignInInv
  <2>4. FormInv'
    BY <1>1, <2>1 DEF TypeOK, FormInv, Latest
  <2> QED BY <2>2, <2>3, <2>4
<1> QED BY <1>2, <1>3 DEF SignedOut, RequestFails

LEMMA NextIsSound == IInv /\ [Next]_vars => IInv'
<1> SUFFICES ASSUME IInv, [Next]_vars PROVE IInv'
  OBVIOUS
<1>1. CASE Next
  BY <1>1, SigningInIsSound, RequirePolicyIsSound, OpeningIsSound,
     BeginningIsSound, CheckIsSound, StoreIsSound, RevokeIsSound, EndingIsSound
     DEF Next
<1>2. CASE UNCHANGED vars
  BY <1>2 DEF IInv, TypeOK, SignInInv, FormInv, Latest, vars
<1> QED BY <1>1, <1>2

\* The invariant holds always.
LEMMA SpecIsSound == Spec => []IInv
BY InitIsSound, NextIsSound, PTL DEF Spec

\* Every variable of the account and the browser keeps its type, a cookie
\* names a session that exists, and consent comes with an age.
THEOREM SessionsTypeCorrect == Spec => []TypeOK
<1>1. IInv => TypeOK
  BY DEF IInv
<1> QED BY <1>1, SpecIsSound, PTL

\* The one UPDATE that consumes an attempt makes its session unique, for any
\* number of callbacks.
THEOREM AttemptsAreSpentOnce == Spec => []OneSessionPerAttempt
<1>1. IInv => OneSessionPerAttempt
  BY DEF IInv, TypeOK, SignInInv, OneSessionPerAttempt
<1> QED BY <1>1, SpecIsSound, PTL

\* The comparison of complete_onboarding keeps every acknowledgement to what
\* the member was shown, for any number of tabs and policy versions.
THEOREM ConsentIsInformed == Spec => []NoBlindConsent
<1>1. IInv => NoBlindConsent
  BY DEF IInv, FormInv, NoBlindConsent
<1> QED BY <1>1, SpecIsSound, PTL

\* The two ways of reading the policies agree on a member who has none of the
\* latest acknowledged.
THEOREM NewcomersAreNotMisled == Spec => []NewcomersAreHeard
<1>1. IInv => NewcomersAreHeard
  BY DEF IInv, TypeOK, FormInv, NewcomersAreHeard
<1> QED BY <1>1, SpecIsSound, PTL
=============================================================================
