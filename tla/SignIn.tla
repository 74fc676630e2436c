---------------------------------- MODULE SignIn ----------------------------------
(***************************************************************************)
(* Signing in and out: src/lib/login-throttle.ts, the sessions of          *)
(* src/lib/auth.ts and the routes under src/app/api/auth.                  *)
(*                                                                         *)
(* A sign-in asks the throttle first, then waits for the database, then    *)
(* counts a failure or makes a session: other requests come in between.    *)
(***************************************************************************)
EXTENDS Integers, Sequences, SequencesExt, FiniteSets

CONSTANTS
  Tabs,           \* of one browser: they share its cookie
  Accounts,
  CallerAddresses,
  LoginWindow,    \* LOGIN_WINDOW_MS
  MaxPerAccount,  \* MAX_FAILURES_PER_ACCOUNT
  MaxPerAddress,  \* MAX_FAILURES_PER_ADDRESS
  MaxKeys,        \* MAX_KEYS
  Ttl,            \* SESSION_TTL_DAYS
  NoToken,
  LastMoment,     \* bound: of time
  MaxSignIns        \* bound: on sign-ins

ASSUME SignInAssumption ==
  /\ IsFiniteSet(Tabs) /\ NoToken \notin Nat
  /\ LoginWindow \in Nat /\ Ttl \in Nat
  /\ MaxPerAccount \in Nat \ {0} /\ MaxPerAddress \in Nat \ {0} /\ MaxKeys \in Nat \ {0}

VARIABLES
  moment,    \* the server's clock
  attempts,  \* the throttle's map, in insertion order: [key, failures, since]
  sessions,  \* rows: [token, until]
  cookie,    \* the browser's token
  tab,       \* what each tab has under way
  failed,    \* history: every failed sign-in, [account, address, at]
  tokens,    \* history: [made, until, over] of every session
  signIns      \* how many sign-ins there were

signInVars == <<moment, attempts, sessions, cookie, tab, failed, tokens, signIns>>

AccountKey(account) == <<"account", account>>
AddressKey(address) == <<"address", address>>

\* What a tab has under way: a sign-in, or a request with the token of the cookie it was sent with.
Trying(at, account, address) == [at |-> at, account |-> account, address |-> address, token |-> NoToken]
Asking(at, token) == [at |-> at, account |-> NoToken, address |-> NoToken, token |-> token]
Idle == Asking("idle", NoToken)

SignInInit ==
  /\ moment = 0
  /\ attempts = <<>>
  /\ sessions = {}
  /\ cookie = NoToken
  /\ tab = [t \in Tabs |-> Idle]
  /\ failed = <<>>
  /\ tokens = <<>>
  /\ signIns = 0

-----------------------------------------------------------------------------
(* The throttle. *)

PlacesOf(map, key) == {k \in DOMAIN map : map[k].key = key}
EntryOf(map, key) == CHOOSE k \in PlacesOf(map, key) : TRUE
Without(map, key) == IF PlacesOf(map, key) = {} THEN map ELSE RemoveAt(map, EntryOf(map, key))

LookedForever(map, key) == map

\* live: an entry whose window is over is dropped when it is looked at.
Looked(map, key) == IF \E k \in PlacesOf(map, key) : moment - map[k].since >= LoginWindow THEN Without(map, key) ELSE map

FailuresOf(map, key) == IF PlacesOf(map, key) = {} THEN 0 ELSE map[EntryOf(map, key)].failures

\* Without making room at the limit.
CountBeyond(map, key) ==
  LET live == Looked(map, key)
      room == IF Len(live) > MaxKeys THEN Tail(live) ELSE live
  IN IF PlacesOf(live, key) # {} THEN [live EXCEPT ![EntryOf(live, key)].failures = @ + 1]
     ELSE Append(room, [key |-> key, failures |-> 1, since |-> moment])

\* count: one more failure; a new key makes the oldest go when there is no room.
Count(map, key) ==
  LET live == Looked(map, key)
      room == IF Len(live) >= MaxKeys THEN Tail(live) ELSE live
  IN IF PlacesOf(live, key) # {} THEN [live EXCEPT ![EntryOf(live, key)].failures = @ + 1]
     ELSE Append(room, [key |-> key, failures |-> 1, since |-> moment])

-----------------------------------------------------------------------------
(* Signing in: POST /api/auth/login. *)

\* One failure too many is let through.
SendLoginOnceMore(t, account, address) ==
  /\ tab[t] = Idle /\ signIns < MaxSignIns
  /\ signIns' = signIns + 1
  /\ LET looked  == Looked(attempts, AccountKey(account))
         accountMay == FailuresOf(looked, AccountKey(account)) <= MaxPerAccount
         both == IF accountMay THEN Looked(looked, AddressKey(address)) ELSE looked
         allowed == accountMay /\ FailuresOf(both, AddressKey(address)) < MaxPerAddress
     IN /\ attempts' = both
        /\ tab' = [tab EXCEPT ![t] = Trying(IF allowed THEN "authenticating" ELSE "refused", account, address)]
  /\ UNCHANGED <<moment, sessions, cookie, failed, tokens>>

\* loginAllowed; the address is not looked at once the account is refused.
SendLogin(t, account, address) ==
  /\ tab[t] = Idle /\ signIns < MaxSignIns
  /\ signIns' = signIns + 1
  /\ LET looked  == Looked(attempts, AccountKey(account))
         accountMay == FailuresOf(looked, AccountKey(account)) < MaxPerAccount
         both == IF accountMay THEN Looked(looked, AddressKey(address)) ELSE looked
         allowed == accountMay /\ FailuresOf(both, AddressKey(address)) < MaxPerAddress
     IN /\ attempts' = both
        /\ tab' = [tab EXCEPT ![t] = Trying(IF allowed THEN "authenticating" ELSE "refused", account, address)]
  /\ UNCHANGED <<moment, sessions, cookie, failed, tokens>>

\* authenticate found no such account and password: recordLoginFailure.
WrongPassword(t) ==
  /\ tab[t].at = "authenticating"
  /\ attempts' = Count(Count(attempts, AccountKey(tab[t].account)), AddressKey(tab[t].address))
  /\ failed' = Append(failed, [account |-> tab[t].account, address |-> tab[t].address, at |-> moment])
  /\ tab' = [tab EXCEPT ![t] = Idle]
  /\ UNCHANGED <<moment, sessions, cookie, tokens, signIns>>

\* It did: recordLoginSuccess, and createSession inserts a row.
RightPassword(t) ==
  /\ tab[t].at = "authenticating"
  /\ attempts' = Without(attempts, AccountKey(tab[t].account))
  /\ tokens' = Append(tokens, [until |-> moment + Ttl, over |-> FALSE])
  /\ sessions' = sessions \cup {[token |-> Len(tokens) + 1, until |-> moment + Ttl]}
  /\ tab' = [tab EXCEPT ![t] = Asking("cleaning", Len(tokens) + 1)]
  /\ UNCHANGED <<moment, cookie, failed, signIns>>

\* Expired rows go, and the answer sets the cookie.
SignedIn(t) ==
  /\ tab[t].at = "cleaning"
  /\ sessions' = {s \in sessions : s.until >= moment}
  /\ cookie' = tab[t].token
  /\ tab' = [tab EXCEPT ![t] = Idle]
  /\ UNCHANGED <<moment, attempts, failed, tokens, signIns>>

(* A refused sign-in is answered. *)
SeeRefusal(t) ==
  /\ tab[t].at = "refused"
  /\ tab' = [tab EXCEPT ![t] = Idle]
  /\ UNCHANGED <<moment, attempts, sessions, cookie, failed, tokens, signIns>>

-----------------------------------------------------------------------------
(* Signing out, and every other request. *)

SendLogout(t) ==
  /\ tab[t] = Idle /\ cookie # NoToken
  /\ tab' = [tab EXCEPT ![t] = Asking("leaving", cookie)]
  /\ UNCHANGED <<moment, attempts, sessions, cookie, failed, tokens, signIns>>

\* Only the cookie goes.
DestroySessionOfCookie(t) ==
  /\ tab[t].at = "leaving"
  /\ tokens' = [tokens EXCEPT ![tab[t].token].over = TRUE]
  /\ tab' = [tab EXCEPT ![t] = Asking("left", NoToken)]
  /\ UNCHANGED <<moment, attempts, sessions, cookie, failed, signIns>>

\* destroySession: the row of the cookie that came with the request.
DestroySession(t) ==
  /\ tab[t].at = "leaving"
  /\ sessions' = {s \in sessions : s.token # tab[t].token}
  /\ tokens' = [tokens EXCEPT ![tab[t].token].over = TRUE]
  /\ tab' = [tab EXCEPT ![t] = Asking("left", NoToken)]
  /\ UNCHANGED <<moment, attempts, cookie, failed, signIns>>

\* The answer takes the cookie away, whichever it is by now.
SignedOut(t) ==
  /\ tab[t].at = "left"
  /\ cookie' = NoToken
  /\ tab' = [tab EXCEPT ![t] = Idle]
  /\ UNCHANGED <<moment, attempts, sessions, failed, tokens, signIns>>

\* Any request of a signed-in page.
SendRequest(t) ==
  /\ tab[t] = Idle /\ cookie # NoToken
  /\ tab' = [tab EXCEPT ![t] = Asking("asking", cookie)]
  /\ UNCHANGED <<moment, attempts, sessions, cookie, failed, tokens, signIns>>

\* getSessionUser.
Answer(t) ==
  /\ tab[t].at = "asking"
  /\ LET found == \E s \in sessions : s.token = tab[t].token /\ s.until > moment
     IN tab' = [tab EXCEPT ![t] = Asking(IF found THEN "served" ELSE "turned away", tab[t].token)]
  /\ UNCHANGED <<moment, attempts, sessions, cookie, failed, tokens, signIns>>

SeeAnswer(t) ==
  /\ tab[t].at \in {"served", "turned away"}
  /\ tab' = [tab EXCEPT ![t] = Idle]
  /\ UNCHANGED <<moment, attempts, sessions, cookie, failed, tokens, signIns>>

\* The answers that say how a request ended are read at once: the history is compared with them.
TimePasses ==
  /\ moment < LastMoment
  /\ \A t \in Tabs : tab[t].at \notin {"refused", "served", "turned away"}
  /\ moment' = moment + 1
  /\ UNCHANGED <<attempts, sessions, cookie, tab, failed, tokens, signIns>>

\* The counts live in the process: a restart forgets them, and every request under way.
ServerRestart ==
  /\ attempts # <<>>
  /\ attempts' = <<>>
  /\ tab' = [t \in Tabs |-> Idle]
  /\ UNCHANGED <<moment, sessions, cookie, failed, tokens, signIns>>

SignInNext ==
  \/ \E t \in Tabs :
       \/ \E account \in Accounts, address \in CallerAddresses : SendLogin(t, account, address)
       \/ WrongPassword(t) \/ RightPassword(t) \/ SignedIn(t) \/ SeeRefusal(t)
       \/ SendLogout(t) \/ DestroySession(t) \/ SignedOut(t)
       \/ SendRequest(t) \/ Answer(t) \/ SeeAnswer(t)
  \/ TimePasses \/ ServerRestart

SignInSpec == SignInInit /\ [][SignInNext]_signInVars

-----------------------------------------------------------------------------
(* Properties. *)

Lately == {k \in DOMAIN failed : moment - failed[k].at < LoginWindow}

\* A sign-in is refused only when its account, or its address, really failed too often within one
\* window: the counts of a window that is over are not held against anybody
\* (login-throttle.ts:4-7).
RefusedForCause ==
  \A t \in Tabs : tab[t].at = "refused" =>
    \/ Cardinality({k \in Lately : failed[k].account = tab[t].account}) >= MaxPerAccount
    \/ Cardinality({k \in Lately : failed[k].address = tab[t].address}) >= MaxPerAddress

\* The throttle looks before it waits for the database and counts after: those who wait together can
\* go beyond the limit of a window, but by no more than they are.
TriesAreBounded ==
  \A k \in DOMAIN attempts :
    attempts[k].failures <= (IF attempts[k].key[1] = "account" THEN MaxPerAccount ELSE MaxPerAddress) + Cardinality(Tabs) - 1

\* The map does not grow without bound, nor lose a key twice (login-throttle.ts:17).
KeysAreBounded ==
  /\ Len(attempts) <= MaxKeys
  /\ \A j, k \in DOMAIN attempts : attempts[j].key = attempts[k].key => j = k

\* The throttle holds those off who failed too often, and nobody else, in a map of limited size.
ThrottleHolds == RefusedForCause /\ TriesAreBounded /\ KeysAreBounded

\* What is served is asked by a session that was made, has time left and was not signed out of
\* before the server looked: not in another tab, and not while the request was on its way.
ServedWhileSignedIn ==
  [][\A t \in Tabs : tab[t].at = "asking" /\ tab'[t].at = "served" =>
       ~tokens[tab[t].token].over /\ moment < tokens[tab[t].token].until]_signInVars
================================================================================
