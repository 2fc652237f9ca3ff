------------------------------ MODULE Sessions -------------------------------
(****************************************************************************)
(* One member's account: signing in through a provider (start_oauth,        *)
(* finish_oauth), the sessions this makes, signing out, and the onboarding  *)
(* form by which the member declares an age and acknowledges the policies.  *)
(*                                                                          *)
(* The tabs of one browser share its cookie.  An attempt at signing in is a *)
(* row of oauth_attempts; a callback is a request that carries its state,   *)
(* and several may carry the same.  A callback makes at most one session,   *)
(* which has its name.                                                      *)
(*                                                                          *)
(* A transaction that reads and writes under no other's eyes is one step;   *)
(* onboarding reads the policies in one statement and writes in later ones  *)
(* under READ COMMITTED, so it has a step for each.                         *)
(****************************************************************************)
EXTENDS Naturals, FiniteSets

CONSTANTS
    Attempts,
    Callbacks,
    Tabs,
    Policies,            \* the policy versions there may be, [kind, version]
    AttemptInsertParses, \* FALSE: the INSERT as it is written, with a comma
                         \* after its last column
    None

\* UNIQUE (kind, version), version > 0
ASSUME PoliciesAssumption ==
    \A p \in Policies : p = [kind |-> p.kind, version |-> p.version]
                        /\ p.version \in Nat \ {0}

VARIABLES
    attempt,   \* private.oauth_attempts
    login,     \* per callback: [attempt, at], or None
    session,   \* private.sessions, by the callback that made it
    cookie,    \* the browser's: the session it names, or None
    listed,    \* the identity is on the allowlist, not disabled
    required,  \* the policy versions with required_from <= now()
    acks,      \* public.policy_acknowledgements
    age,       \* public.age_declarations
    tab,       \* per tab: the session it took its CSRF token from, and
               \* whether it shows the onboarding page; None if signed out
    form,      \* per tab: what the onboarding page lists as not acknowledged,
               \* and what was the latest of each kind then; or None
    request,   \* per tab: the request under way, or None
    outdated,  \* the tabs whose form was refused as POLICY_VERSION_OUTDATED
    seen       \* for the properties only: every policy version ever listed

vars == <<attempt, login, session, cookie, listed, required, acks, age, tab,
          form, request, outdated, seen>>

account == <<required, acks, age, seen>>
browser == <<cookie, tab, form, request, outdated>>

\* The highest required version of each kind: the join on max(version), and the
\* DISTINCT ON of can_learn and principal_for_token, which agrees with it.
Latest(known) ==
    {p \in known : \A q \in known : q.kind = p.kind => q.version <= p.version}

\* policies_current
PoliciesCurrent == Latest(required) \subseteq acks

Live(s) == s # None /\ session[s] = "live"

\* The browser's cookie names a live session and the tab's CSRF token is of it.
Authorised(t) == Live(cookie) /\ tab[t].csrf = cookie

Init ==
    /\ attempt = [a \in Attempts |-> "none"]
    /\ login = [c \in Callbacks |-> None]
    /\ session = [c \in Callbacks |-> "none"]
    /\ cookie = None
    /\ listed = TRUE
    /\ required = {}
    /\ acks = {}
    /\ age = FALSE
    /\ tab = [t \in Tabs |-> None]
    /\ form = [t \in Tabs |-> None]
    /\ request = [t \in Tabs |-> None]
    /\ outdated = {}
    /\ seen = {}

-----------------------------------------------------------------------------
(* Signing in. *)

\* start_oauth
StartOAuth(a) ==
    /\ AttemptInsertParses
    /\ attempt[a] = "none"
    /\ attempt' = [attempt EXCEPT ![a] = "open"]
    /\ UNCHANGED <<login, session, listed, account, browser>>

\* Ten minutes pass.
AttemptExpires(a) ==
    /\ attempt[a] = "open"
    /\ attempt' = [attempt EXCEPT ![a] = "expired"]
    /\ UNCHANGED <<login, session, listed, account, browser>>

\* Mutant: consuming does not look at consumed_at.
ConsumableAgain(a) == attempt[a] \in {"open", "consumed"}

\* consumed_at IS NULL AND expires_at > now()
Consumable(a) == attempt[a] = "open"

\* finish_oauth up to the exchange: one UPDATE finds and consumes the attempt,
\* or the callback is answered 400 and changes nothing.
ConsumeAttempt(c, a) ==
    /\ login[c] = None
    /\ Consumable(a)
    /\ attempt' = [attempt EXCEPT ![a] = "consumed"]
    /\ login' = [login EXCEPT ![c] = [attempt |-> a, at |-> "exchanging"]]
    /\ UNCHANGED <<session, listed, account, browser>>

\* The provider refuses the code or does not answer (401), the identity is not
\* on the allowlist (403) or a transaction fails (500).  The attempt stays
\* consumed.
RefuseIdentity(c) ==
    /\ login[c] # None
    /\ login[c].at = "exchanging"
    /\ login' = [login EXCEPT ![c].at = "ended"]
    /\ UNCHANGED <<attempt, session, listed, account, browser>>

\* create_session_for_identity
CreateSession(c) ==
    /\ login[c] # None
    /\ login[c].at = "exchanging"
    /\ listed
    /\ session' = [session EXCEPT ![c] = "live"]
    /\ login' = [login EXCEPT ![c].at = "stored"]
    /\ UNCHANGED <<attempt, listed, account, browser>>

\* The redirect arrives and sets the cookie, or is lost with its only copy of
\* the token.
AnswerCallback(c) ==
    /\ login[c] # None
    /\ login[c].at = "stored"
    /\ login' = [login EXCEPT ![c].at = "ended"]
    /\ cookie' \in {cookie, c}
    /\ UNCHANGED <<attempt, session, listed, account, tab, form, request, outdated>>

SessionExpires(c) ==
    /\ session[c] = "live"
    /\ session' = [session EXCEPT ![c] = "ended"]
    /\ UNCHANGED <<attempt, login, listed, account, browser>>

\* The owner disables the allowlist entry or enables it again; nothing under
\* schemasprint_api does.
SetAllowlist ==
    /\ listed' = ~listed
    /\ UNCHANGED <<attempt, login, session, account, browser>>

\* A policy version is published and its required_from comes, in any order.
RequirePolicy(p) ==
    /\ p \notin required
    /\ required' = required \cup {p}
    /\ UNCHANGED <<attempt, login, session, listed, acks, age, seen, browser>>

-----------------------------------------------------------------------------
(* The tabs. *)

\* App asks for the session; the onboarding page sends a member whose gates are
\* open away.
OpenApp(t) ==
    /\ request[t] = None
    /\ tab' = [tab EXCEPT ![t] =
                 IF Live(cookie)
                 THEN [csrf |-> cookie, gated |-> ~(age /\ PoliciesCurrent)]
                 ELSE None]
    /\ form' = [form EXCEPT ![t] = None]
    /\ outdated' = outdated \ {t}
    /\ UNCHANGED <<attempt, login, session, listed, account, cookie, request>>

\* OnboardingPage, on being opened, asks for the policies and lists those not
\* acknowledged.
ListPolicies(t) ==
    /\ request[t] = None
    /\ tab[t] # None
    /\ tab[t].gated
    /\ Live(cookie)
    /\ form' = [form EXCEPT ![t] =
                  [sent |-> Latest(required) \ acks, latest |-> Latest(required)]]
    /\ seen' = seen \cup (Latest(required) \ acks)
    /\ outdated' = outdated \ {t}
    /\ UNCHANGED <<attempt, login, session, listed, required, acks, age, cookie,
                   tab, request>>

\* The member accepts all that is listed and submits.  Without a live session
\* (401), with the CSRF token of another (403) or with an empty list (422) the
\* request ends and changes nothing.  The principal is read here, once.
SubmitForm(t) ==
    /\ request[t] = None
    /\ form[t] # None
    /\ Authorised(t)
    /\ form[t].sent # {}
    /\ request' = [request EXCEPT ![t] =
                     [op |-> "onboarding", at |-> "begun", listed |-> listed]]
    /\ outdated' = outdated \ {t}
    /\ UNCHANGED <<attempt, login, session, listed, account, cookie, tab, form>>

InRequest(t, op, stage) ==
    request[t] # None /\ request[t].op = op /\ request[t].at = stage

Ended(t) == request' = [request EXCEPT ![t] = None]

\* Mutant: whatever is latest is acknowledged.
CheckNothing(t) ==
    /\ InRequest(t, "onboarding", "begun")
    /\ request[t].listed
    /\ request' = [request EXCEPT ![t].at = "writing"]
    /\ form' = [form EXCEPT ![t].sent = Latest(required)]
    /\ UNCHANGED <<attempt, login, session, listed, account, cookie, tab, outdated>>

\* Mutant: superseded versions are asked for, too.
CheckFormOfEveryVersion(t) ==
    /\ InRequest(t, "onboarding", "begun")
    /\ \/ /\ form[t].sent # required
          /\ Ended(t)
          /\ outdated' = outdated \cup {t}
       \/ /\ form[t].sent = required
          /\ request' = [request EXCEPT ![t].at = "writing"]
          /\ UNCHANGED outdated
    /\ UNCHANGED <<attempt, login, session, listed, account, cookie, tab, form>>

\* complete_onboarding up to its first write
CheckForm(t) ==
    /\ InRequest(t, "onboarding", "begun")
    /\ \/ /\ ~request[t].listed    \* ALLOWLIST_REQUIRED
          /\ Ended(t)
          /\ UNCHANGED outdated
       \/ /\ request[t].listed
          /\ form[t].sent # Latest(required)
          /\ Ended(t)
          /\ outdated' = outdated \cup {t}
       \/ /\ request[t].listed
          /\ form[t].sent = Latest(required)
          /\ request' = [request EXCEPT ![t].at = "writing"]
          /\ UNCHANGED outdated
    /\ UNCHANGED <<attempt, login, session, listed, account, cookie, tab, form>>

\* Mutant: the age is declared in a transaction of its own, later.
StoreFormBeforeAge(t) ==
    /\ InRequest(t, "onboarding", "writing")
    /\ acks' = acks \cup form[t].sent
    /\ request' = [request EXCEPT ![t].at = "stored"]
    /\ UNCHANGED <<attempt, login, session, listed, required, age, seen, cookie,
                   tab, form, outdated>>

\* complete_onboarding: its writes, and the commit
StoreForm(t) ==
    /\ InRequest(t, "onboarding", "writing")
    /\ age' = TRUE
    /\ acks' = acks \cup form[t].sent
    /\ request' = [request EXCEPT ![t].at = "stored"]
    /\ UNCHANGED <<attempt, login, session, listed, required, seen, cookie, tab,
                   form, outdated>>

\* The page asks for the session again and leaves.
FormCompleted(t) ==
    /\ InRequest(t, "onboarding", "stored")
    /\ Ended(t)
    /\ form' = [form EXCEPT ![t] = None]
    /\ tab' = [tab EXCEPT ![t].gated = FALSE]
    /\ UNCHANGED <<attempt, login, session, listed, account, cookie, outdated>>

\* A transaction fails, the server dies or the answer is lost.
RequestFails(t) ==
    /\ request[t] # None
    /\ Ended(t)
    /\ UNCHANGED <<attempt, login, session, listed, account, cookie, tab, form,
                   outdated>>

\* signOut of SettingsPage, with a key of its own
SignOut(t) ==
    /\ request[t] = None
    /\ tab[t] # None
    /\ Authorised(t)
    /\ request' = [request EXCEPT ![t] =
                     [op |-> "logout", at |-> "begun", session |-> cookie]]
    /\ UNCHANGED <<attempt, login, session, listed, account, cookie, tab, form,
                   outdated>>

\* logout: revoked_at is set, unless it was.
RevokeSession(t) ==
    /\ InRequest(t, "logout", "begun")
    /\ session' = [session EXCEPT ![request[t].session] = "ended"]
    /\ request' = [request EXCEPT ![t].at = "stored"]
    /\ UNCHANGED <<attempt, login, listed, account, cookie, tab, form, outdated>>

\* The 204 deletes the cookie, whichever session it names by now.
SignedOut(t) ==
    /\ InRequest(t, "logout", "stored")
    /\ cookie' = None
    /\ Ended(t)
    /\ UNCHANGED <<attempt, login, session, listed, account, tab, form, outdated>>

Next ==
    \/ \E a \in Attempts : StartOAuth(a) \/ AttemptExpires(a)
    \/ \E c \in Callbacks, a \in Attempts : ConsumeAttempt(c, a)
    \/ \E c \in Callbacks :
         \/ RefuseIdentity(c)
         \/ CreateSession(c)
         \/ AnswerCallback(c)
         \/ SessionExpires(c)
    \/ SetAllowlist
    \/ \E p \in Policies : RequirePolicy(p)
    \/ \E t \in Tabs :
         \/ OpenApp(t) \/ ListPolicies(t) \/ SubmitForm(t)
         \/ CheckForm(t) \/ StoreForm(t) \/ FormCompleted(t)
         \/ SignOut(t) \/ RevokeSession(t) \/ SignedOut(t)
         \/ RequestFails(t)

Spec == Init /\ [][Next]_vars

-----------------------------------------------------------------------------
Logins == [attempt : Attempts, at : {"exchanging", "stored", "ended"}]
OpenTabs == [csrf : Callbacks, gated : BOOLEAN]
Forms == [sent : SUBSET Policies, latest : SUBSET Policies]
Requests ==
    [op : {"onboarding"}, at : {"begun", "writing", "stored"}, listed : BOOLEAN]
    \cup [op : {"logout"}, at : {"begun", "stored"}, session : Callbacks]

ASSUME NoneAssumption ==
    None \notin Callbacks \cup Logins \cup OpenTabs \cup Forms \cup Requests

\* Of the state as a whole: a cookie names a session that was stored, a session
\* exists once its callback got as far, and consent comes with an age.
TypeOK ==
    /\ attempt \in [Attempts -> {"none", "open", "consumed", "expired"}]
    /\ login \in [Callbacks -> Logins \cup {None}]
    /\ session \in [Callbacks -> {"none", "live", "ended"}]
    /\ cookie \in Callbacks \cup {None}
    /\ cookie # None => session[cookie] # "none"
    /\ \A c \in Callbacks : session[c] # "none" =>
            login[c] # None /\ login[c].at # "exchanging"
    /\ listed \in BOOLEAN
    /\ required \in SUBSET Policies
    /\ acks \in SUBSET required
    /\ age \in BOOLEAN
    /\ acks # {} => age
    /\ tab \in [Tabs -> OpenTabs \cup {None}]
    /\ form \in [Tabs -> Forms \cup {None}]
    /\ request \in [Tabs -> Requests \cup {None}]
    /\ outdated \in SUBSET Tabs
    /\ seen \in SUBSET required

\* However many callbacks carry one state, at once or one after the other, at
\* most one of them makes a session; a failed exchange gives no second try.
OneSessionPerAttempt ==
    \A c, d \in Callbacks :
        /\ session[c] # "none"
        /\ session[d] # "none"
        /\ login[c].attempt = login[d].attempt
        => c = d

\* No acknowledgement is on record of a version that was never listed to the
\* member, although versions become required while a form is filled in and
\* sent, and other tabs acknowledge meanwhile.
NoBlindConsent == acks \subseteq seen

\* A member to whom the page listed every latest version is told that the list
\* is out of date only if it is.
NewcomersAreHeard ==
    \A t \in Tabs :
        t \in outdated /\ form[t].sent = form[t].latest =>
            form[t].latest # Latest(required)
=============================================================================
