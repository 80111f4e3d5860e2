------------------------- MODULE StorefrontSession -------------------------
(***************************************************************************)
(* The tabs of one browser (apps/storefront/src/api/client.ts and auth.ts)   *)
(* that share a session of the auth service: the refresh token in            *)
(* localStorage, the copy each tab keeps in memory, and, where the browser has *)
(* them, the BroadcastChannel and the Web Lock around a refresh.            *)
(*                                                                          *)
(* A flow is one run of login, register or tryRefresh in some tab, from       *)
(* await to await; JavaScript runs what is between as one step.  An access    *)
(* token may be refused at any time, so that any request with a refresh token *)
(* in memory may start a refresh.                                           *)
(***************************************************************************)
EXTENDS Integers, Sequences, FiniteSets

CONSTANTS Features, \* what the browser has: "locks" for navigator.locks, which only a
                    \* secure origin gets, and "channel" for BroadcastChannel
          Tabs,
          Flows,    \* login, register and refresh calls of the tabs
          TabOf,    \* the tab of each flow
          NoFlow,
          Emails, NoEmail, Tokens, NoToken, \* see AuthTokens
          MaxExpired, \* bound: tokens that expire
          MaxInbox, \* bound: a tab with so many messages to read reads before anybody
                    \* logs out or starts a flow
          Faults    \* "throw": see AuthTokens
                    \* "net": a fetch rejects, wherever the service is with its request

ASSUME BrowserAssumption == Features \subseteq {"locks", "channel"}
ASSUME FlowAssumption == TabOf \in [Flows -> Tabs] /\ NoFlow \notin Flows
ASSUME TokenAssumption == NoToken \notin Tokens /\ NoEmail \notin Emails
ASSUME BoundAssumption == MaxInbox \in Nat /\ MaxExpired \in Nat

VARIABLES stored,  \* localStorage[REFRESH_KEY]
          memory,  \* tokens.refresh of each tab
          inbox,   \* messages of the channel a tab has not handled: a pair, or NoToken
                   \* for a logout
          lock,    \* the flow that holds ecommerce.auth.refresh, where there are locks
          pc,      \* where each flow is
          again,   \* the login a flow repeats after its refresh
          burnt,   \* tokens sent for exchange by a fetch that rejected
          users, owner, revoked, expired, authCall \* AuthTokens

Auth == INSTANCE AuthTokens WITH Callers <- Flows

browser == <<stored, memory, inbox>>
flowVars == <<lock, pc, again, burnt>>
service == <<users, owner, revoked, expired, authCall>>
vars == <<browser, flowVars, service>>

Init ==
  /\ stored = NoToken
  /\ memory = [t \in Tabs |-> NoToken]
  /\ inbox = [t \in Tabs |-> <<>>]
  /\ lock = NoFlow
  /\ pc = [f \in Flows |-> "idle"]
  /\ again = [f \in Flows |-> NoEmail]
  /\ burnt = {}
  /\ Auth!Init

\* tokens, localStorage and a message to the other tabs, if there is a channel: setTokens,
\* or clearTokens when the token is NoToken.
SetTokens(t, token) ==
  /\ memory' = [memory EXCEPT ![t] = token]
  /\ stored' = token
  /\ inbox' = [u \in Tabs |-> IF u # t /\ "channel" \in Features
                              THEN Append(inbox[u], token) ELSE inbox[u]]

\* The listener of the channel.
Receive(t) ==
  /\ inbox[t] # <<>>
  /\ memory' = [memory EXCEPT ![t] = Head(inbox[t])]
  /\ stored' = IF Head(inbox[t]) = NoToken THEN NoToken ELSE stored
  /\ inbox' = [inbox EXCEPT ![t] = Tail(@)]
  /\ UNCHANGED <<flowVars, service>>

Room == \A t \in Tabs : Len(inbox[t]) < MaxInbox

logout(t) ==
  /\ Room
  /\ SetTokens(t, NoToken)
  /\ UNCHANGED <<flowVars, service>>

-----------------------------------------------------------------------------
(* login and register *)

Submit(f, op, email) ==
  /\ pc[f] = "idle" /\ Room
  /\ Auth!Send(f, op, email, NoToken)
  /\ pc' = [pc EXCEPT ![f] = "form"]
  /\ UNCHANGED <<browser, lock, again, burnt>>

SubmitAnswered(f) ==
  /\ pc[f] \in {"form", "retried"}
  /\ authCall[f].st = "replied"
  /\ authCall[f].answer = "ok"
  /\ SetTokens(TabOf[f], authCall[f].fresh)
  /\ pc' = [pc EXCEPT ![f] = "idle"]
  /\ Auth!Take(f)
  /\ UNCHANGED <<lock, again, burnt>>

\* A refused login takes its 401 for an expired access token, and asks for a refresh
\* if the tab has a refresh token; the login is then repeated, once.
Unauthorized(f) ==
  /\ pc[f] = "form"
  /\ Auth!Answered(f, "login", "unauthorized")
  /\ memory[TabOf[f]] # NoToken
  /\ pc' = [pc EXCEPT ![f] = "waiting"]
  /\ again' = [again EXCEPT ![f] = authCall[f].email]
  /\ Auth!Take(f)
  /\ UNCHANGED <<browser, lock, burnt>>

SubmitRefused(f) ==
  /\ pc[f] \in {"form", "retried"}
  /\ Auth!Replied(f) /\ authCall[f].answer # "ok"
  /\ ~(pc[f] = "form" /\ authCall[f].answer = "unauthorized" /\ memory[TabOf[f]] # NoToken)
  /\ pc' = [pc EXCEPT ![f] = "idle"]
  /\ Auth!Take(f)
  /\ UNCHANGED <<browser, lock, again, burnt>>

-----------------------------------------------------------------------------
(* tryRefresh, in withRefreshLock: without navigator.locks nothing is waited for, the flow *)
(* takes no lock, and lock stays NoFlow.                                                   *)

\* A request was answered 401, or the tab has just been loaded.
RequestLock(f) ==
  /\ pc[f] = "idle" /\ Room
  /\ ~Auth!InFlight(f)
  /\ memory[TabOf[f]] # NoToken
  /\ pc' = [pc EXCEPT ![f] = "waiting"]
  /\ UNCHANGED <<browser, lock, again, burnt, service>>

\* Mutant: the token in memory is not read again inside the lock.
CurrentFromMemory(f) == memory[TabOf[f]]

\* localStorage.getItem(REFRESH_KEY), "the shared truth".
Current(f) == stored

\* Somebody else has logged out: there is nothing to refresh.
NothingToRefresh(f) ==
  /\ pc[f] = "waiting" /\ lock = NoFlow
  /\ Current(f) = NoToken
  /\ memory' = [memory EXCEPT ![TabOf[f]] = NoToken]
  /\ pc' = [pc EXCEPT ![f] = "idle"]
  /\ again' = [again EXCEPT ![f] = NoEmail]
  /\ UNCHANGED <<stored, inbox, lock, burnt, service>>

\* Mutant: a mutex in the memory of the tab, in place of one of the browser.
SendRefreshPerTab(f) ==
  /\ pc[f] = "waiting"
  /\ \A g \in Flows : lock = g => TabOf[g] # TabOf[f]
  /\ Current(f) # NoToken
  /\ lock' = f
  /\ pc' = [pc EXCEPT ![f] = "fetching"]
  /\ memory' = [memory EXCEPT ![TabOf[f]] = Current(f)]
  /\ Auth!Send(f, "refresh", NoEmail, Current(f))
  /\ UNCHANGED <<stored, inbox, again, burnt>>

\* The lock, if the browser has one, is taken until the answer is there.
SendRefresh(f) ==
  /\ pc[f] = "waiting" /\ lock = NoFlow
  /\ Current(f) # NoToken
  /\ lock' = IF "locks" \in Features THEN f ELSE lock
  /\ pc' = [pc EXCEPT ![f] = "fetching"]
  /\ memory' = [memory EXCEPT ![TabOf[f]] = Current(f)]
  /\ Auth!Send(f, "refresh", NoEmail, Current(f))
  /\ UNCHANGED <<stored, inbox, again, burnt>>

AcquireLock(f) == NothingToRefresh(f) \/ SendRefresh(f)

\* Mutant: the lock is kept when the flow ends.
UnlockNever(f) == UNCHANGED lock

\* The callback of navigator.locks.request returns or throws.
Unlock(f) == lock' = IF lock = f THEN NoFlow ELSE lock

\* The new pair is stored, whatever has been stored since the request was sent.
Refreshed(f) ==
  /\ pc[f] = "fetching"
  /\ Auth!Answered(f, "refresh", "ok")
  /\ SetTokens(TabOf[f], authCall[f].fresh)
  /\ Unlock(f)
  /\ again' = [again EXCEPT ![f] = NoEmail]
  /\ IF again[f] = NoEmail
       THEN pc' = [pc EXCEPT ![f] = "idle"] /\ Auth!Take(f)
       ELSE pc' = [pc EXCEPT ![f] = "retried"] /\ Auth!Send(f, "login", again[f], NoToken)
  /\ UNCHANGED burnt

\* Any other answer ends the session in every tab.
NotRefreshed(f) ==
  /\ pc[f] = "fetching"
  /\ Auth!Replied(f) /\ authCall[f].answer # "ok"
  /\ SetTokens(TabOf[f], NoToken)
  /\ Unlock(f)
  /\ pc' = [pc EXCEPT ![f] = "idle"]
  /\ again' = [again EXCEPT ![f] = NoEmail]
  /\ Auth!Take(f)
  /\ UNCHANGED burnt

-----------------------------------------------------------------------------
(* What goes wrong *)

Exchanging(f) == IF pc[f] = "fetching" THEN {authCall[f].token} ELSE {}

\* The flow ends with an exception, or dies with its tab, and its lock is released.
Abandon(f) ==
  /\ pc' = [pc EXCEPT ![f] = "idle"]
  /\ again' = [again EXCEPT ![f] = NoEmail]
  /\ burnt' = burnt \cup Exchanging(f)
  /\ Unlock(f)

FetchRejects(f) ==
  /\ pc[f] \in {"form", "retried", "fetching"}
  /\ "net" \in Faults
  /\ Abandon(f)
  /\ UNCHANGED <<browser, service>>

\* A tab starts anew, with what localStorage holds, whatever its flows were doing and
\* while the service goes on with their requests.
Reload(t) ==
  LET mine == {f \in Flows : TabOf[f] = t}
  IN  /\ memory' = [memory EXCEPT ![t] = stored]
      /\ inbox' = [inbox EXCEPT ![t] = <<>>]
      /\ pc' = [f \in Flows |-> IF f \in mine THEN "idle" ELSE pc[f]]
      /\ again' = [f \in Flows |-> IF f \in mine THEN NoEmail ELSE again[f]]
      /\ burnt' = burnt \cup UNION {Exchanging(f) : f \in mine}
      /\ lock' = IF lock \in mine THEN NoFlow ELSE lock
      /\ UNCHANGED <<stored, service>>

-----------------------------------------------------------------------------
AuthStep(f) == (Auth!AuthDecide(f) \/ Auth!AuthThrow(f)) /\ UNCHANGED <<browser, flowVars>>
Expire(t) == Auth!Expire(t) /\ UNCHANGED <<browser, flowVars>>

FlowStep(f) ==
  \/ SubmitAnswered(f)
  \/ Unauthorized(f)
  \/ SubmitRefused(f)
  \/ Refreshed(f)
  \/ NotRefreshed(f)

Next ==
  \/ \E t \in Tabs : Receive(t) \/ logout(t) \/ Reload(t)
  \/ \E f \in Flows :
       \/ \E op \in {"register", "login"}, email \in Emails : Submit(f, op, email)
       \/ RequestLock(f)
       \/ AcquireLock(f)
       \/ FlowStep(f)
       \/ FetchRejects(f)
       \/ AuthStep(f)
  \/ \E t \in Tokens : Cardinality(expired) < MaxExpired /\ Expire(t)

\* A tab's event loop and the auth service go on, and the browser grants the lock in
\* the order of the requests.
Fairness ==
  \A f \in Flows :
    /\ WF_vars(FlowStep(f))
    /\ SF_vars(AcquireLock(f))
    /\ WF_vars(Auth!AuthDecide(f) /\ UNCHANGED <<browser, flowVars>>)

Spec == Init /\ [][Next]_vars
FairSpec == Spec /\ Fairness

-----------------------------------------------------------------------------
(* Properties *)

\* Every variable holds a value of its type, and the lock of a browser that has one is held
\* by whoever refreshes, so that one tab at most does.
TypeOK ==
  /\ stored \in Tokens \cup {NoToken}
  /\ memory \in [Tabs -> Tokens \cup {NoToken}]
  /\ \A t \in Tabs : \A i \in 1..Len(inbox[t]) : inbox[t][i] \in Tokens \cup {NoToken}
  /\ pc \in [Flows -> {"idle", "form", "waiting", "fetching", "retried"}]
  /\ again \in [Flows -> Emails \cup {NoEmail}]
  /\ burnt \subseteq Tokens
  /\ lock \in Flows \cup {NoFlow}
  /\ IF "locks" \in Features THEN \A f \in Flows : pc[f] = "fetching" <=> lock = f
                            ELSE lock = NoFlow
  /\ Auth!AuthTypeOK

\* "Two tabs refreshing simultaneously would revoke each other's tokens and log each other
\* out": a tab is refused a refresh only if its token expired or was sent for exchange by a
\* call that was cut off.  Where navigator.locks is missing the code goes on without it
\* (client.ts:120), and this does not hold.
RaceLogsNobodyOut ==
  \A f \in Flows :
    pc[f] = "fetching" /\ Auth!Answered(f, "refresh", "unauthorized") =>
      authCall[f].token \in expired \cup burnt

\* In a browser with Web Locks, the lock and the second look at localStorage see to it that
\* nobody is logged out by a race, with or without a channel.
NotLoggedOutByRace == "locks" \in Features => RaceLogsNobodyOut

\* Refresh tokens are single use, although the lookup and the revocation of refresh are
\* two statements that another request may come between: in a browser with Web Locks one
\* request gets past the lookup with a token, except after a call that was cut off.
PastLookup(f) ==
  authCall[f].op = "refresh" /\ (authCall[f].st \in {"checked", "revoked"} \/ authCall[f].answer = "ok")

ExchangedOnce ==
  "locks" \in Features =>
    \A f, g \in Flows :
      PastLookup(f) /\ PastLookup(g) /\ authCall[f].token = authCall[g].token =>
        f = g \/ authCall[f].token \in burnt

\* See AuthTokens.
RotationSound == Auth!RotationSound
RegisteredOnce == Auth!RegisteredOnce

\* Bound: the service has revoked the token of a refresh and Tokens has none left for it.
OutOfTokens ==
  Auth!Unissued = {} /\ \E f \in Flows : pc[f] = "fetching" /\ Auth!At(f, "refresh", "revoked")

\* Nobody waits for ever at the lock, whatever becomes of the one who holds it: a refresh
\* ends, its own or that of whoever waits behind it.
RefreshEnds ==
  \A f \in Flows :
    pc[f] \in {"waiting", "fetching"} ~> pc[f] \notin {"waiting", "fetching"} \/ OutOfTokens

=============================================================================
