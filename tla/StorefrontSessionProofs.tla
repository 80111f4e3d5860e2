---------------------- MODULE StorefrontSessionProofs ----------------------
(***************************************************************************)
(* What the session of one browser guarantees for any tabs, flows, users,     *)
(* tokens and faults.  In every browser the rotation is sound and an e-mail   *)
(* is registered once; in one with Web Locks, moreover, nobody is logged out  *)
(* by a race of refreshes, and a token is exchanged once.                    *)
(*                                                                          *)
(* The service rotates a token in several statements and would refuse the    *)
(* second of two requests with it.  The inductive invariant says whose a      *)
(* token is at each moment: one that was answered and not yet stored belongs  *)
(* to its answer alone, the one stored is unused unless a flow has it in      *)
(* exchange, and one that is exchanged twice was burnt, if there is a lock.   *)
(***************************************************************************)
EXTENDS StorefrontSession, TLAPS

-----------------------------------------------------------------------------
(* The inductive invariant *)

CallType == [op     : {"none", "register", "login", "refresh"},
             st     : {"idle", "sent", "checked", "inserted", "revoked", "replied"},
             email  : Emails \cup {NoEmail},
             token  : Tokens \cup {NoToken},
             answer : {"none", "ok", "conflict", "unauthorized", "error"},
             fresh  : Tokens \cup {NoToken}]

Types ==
  /\ stored \in Tokens \cup {NoToken}
  /\ memory \in [Tabs -> Tokens \cup {NoToken}]
  /\ inbox \in [Tabs -> Seq(Tokens \cup {NoToken})]
  /\ lock \in Flows \cup {NoFlow}
  /\ pc \in [Flows -> {"idle", "form", "waiting", "fetching", "retried"}]
  /\ again \in [Flows -> Emails \cup {NoEmail}]
  /\ burnt \subseteq Tokens
  /\ users \subseteq Emails
  /\ owner \in [Tokens -> Emails \cup {NoEmail}]
  /\ revoked \subseteq Tokens /\ expired \subseteq Tokens
  /\ authCall \in [Flows -> CallType]

LockHeld ==
  /\ "locks" \in Features => \A f \in Flows : pc[f] = "fetching" <=> lock = f
  /\ "locks" \notin Features => lock = NoFlow

\* A request and its answer, against the tables of the service.
CallSound(c) ==
  LET call == authCall[c]
  IN  /\ call.answer # "none" => call.st = "replied"
      /\ call.op \in {"register", "login"} => call.email \in Emails
      /\ call.op = "refresh" => call.token \in Tokens /\ owner[call.token] # NoEmail
      /\ call.op # "refresh" => call.token = NoToken
      /\ call.op = "refresh" /\ (call.st = "revoked" \/ call.answer = "ok") =>
           call.token \in revoked
      /\ call.op = "refresh" /\ call.answer = "ok" => owner[call.fresh] = owner[call.token]
      /\ call.op = "register" /\ (call.st = "inserted" \/ call.answer = "ok") =>
           call.email \in users

\* A token answered and not taken yet: nobody has used it, and nobody else has it.
FreshSound(c) ==
  LET t == authCall[c].fresh
  IN  authCall[c].answer = "ok" =>
        /\ t \in Tokens /\ owner[t] # NoEmail /\ t \notin revoked /\ t # stored
        /\ \A d \in Flows : authCall[d].token # t
        /\ \A d \in Flows \ {c} : authCall[d].answer = "ok" => authCall[d].fresh # t

\* The INSERT lets one registration of an e-mail past.
Inserted(c) ==
  authCall[c].op = "register" /\ (authCall[c].st = "inserted" \/ authCall[c].answer = "ok")
Registered ==
  \A c, d \in Flows :
    Inserted(c) /\ Inserted(d) /\ authCall[c].email = authCall[d].email => c = d

\* A flow and its request; a refresh that nobody waits for has burnt its token.
FlowSound(f) ==
  LET call == authCall[f]
  IN  /\ pc[f] = "fetching" => call.op = "refresh"
      /\ pc[f] \in {"form", "retried"} => call.op \in {"login", "register"}
      /\ call.op = "refresh" /\ pc[f] # "fetching" => call.token \in burnt
      /\ "locks" \in Features /\ pc[f] = "fetching" =>
           /\ call.st = "sent" /\ call.token \in revoked => call.token \in burnt
           /\ call.answer = "unauthorized" => call.token \in expired \cup burnt

\* The token in localStorage was issued, and is unused unless a flow has it.
StoredSound ==
  stored # NoToken =>
    /\ owner[stored] # NoEmail
    /\ stored \in revoked =>
         stored \in burnt \/ \E f \in Flows : pc[f] = "fetching" /\ authCall[f].token = stored

RevokedIssued == \A t \in revoked : owner[t] # NoEmail

IInv ==
  /\ Types
  /\ LockHeld
  /\ \A f \in Flows : CallSound(f) /\ FreshSound(f) /\ FlowSound(f)
  /\ Registered
  /\ StoredSound
  /\ RevokedIssued

-----------------------------------------------------------------------------
(* The requests *)

Answers == {"none", "ok", "conflict", "unauthorized", "error"}
Stages == {"idle", "sent", "checked", "inserted", "revoked", "replied"}

\* The request of c, and no other, gets to st with this answer and this new token.
Moved(c, st, answer, fresh) ==
  /\ authCall' \in [Flows -> CallType]
  /\ \A d \in Flows \ {c} : authCall'[d] = authCall[d]
  /\ authCall'[c].op = authCall[c].op
  /\ authCall'[c].email = authCall[c].email
  /\ authCall'[c].token = authCall[c].token
  /\ authCall'[c].st = st
  /\ authCall'[c].answer = answer
  /\ authCall'[c].fresh = fresh

\* A request whose progress, answer and token are given.
CallOf(call, st, answer, fresh) ==
  [op |-> call.op, st |-> st, email |-> call.email, token |-> call.token,
   answer |-> answer, fresh |-> fresh]

\* An answered request, written as the record it is.
LEMMA AnswerFields ==
  ASSUME NEW call \in CallType, NEW a \in Answers
  PROVE  [call EXCEPT !.st = "replied", !.answer = a] = CallOf(call, "replied", a, call.fresh)
  <1> DEFINE one == CallOf(call, "replied", call.answer, call.fresh)
  <1>1. [call EXCEPT !.st = "replied"] = one
    BY DEF CallType, CallOf
  <1>2. [one EXCEPT !.answer = a] = CallOf(call, "replied", a, call.fresh)
    BY DEF CallOf
  <1>3. [call EXCEPT !.st = "replied", !.answer = a] = [one EXCEPT !.answer = a]
    <2> HIDE DEF one
    <2> QED BY <1>1, Zenon
  <1> QED BY <1>2, <1>3, Zenon

\* The same of an answer with a token.
LEMMA IssueFields ==
  ASSUME NEW call \in CallType, NEW t \in Tokens
  PROVE  [call EXCEPT !.st = "replied", !.answer = "ok", !.fresh = t] =
           CallOf(call, "replied", "ok", t)
  <1> DEFINE one == CallOf(call, "replied", call.answer, call.fresh)
             two == CallOf(call, "replied", "ok", call.fresh)
  <1>1. [call EXCEPT !.st = "replied"] = one
    BY DEF CallType, CallOf
  <1>2. [one EXCEPT !.answer = "ok"] = two
    BY DEF CallOf
  <1>3. [two EXCEPT !.fresh = t] = CallOf(call, "replied", "ok", t)
    BY DEF CallOf
  <1>4. [call EXCEPT !.st = "replied", !.answer = "ok", !.fresh = t] =
          [[one EXCEPT !.answer = "ok"] EXCEPT !.fresh = t]
    <2> HIDE DEF one
    <2> QED BY <1>1, Zenon
  <1> QED BY <1>2, <1>3, <1>4, Zenon

\* A request whose record is given has moved.
LEMMA Moves ==
  ASSUME Types, NEW c \in Flows, NEW st \in Stages, NEW a \in Answers,
         NEW t \in Tokens \cup {NoToken},
         authCall' = [authCall EXCEPT ![c] = CallOf(authCall[c], st, a, t)]
  PROVE  Moved(c, st, a, t)
  <1>1. CallOf(authCall[c], st, a, t) \in CallType
    BY DEF Types, CallType, CallOf, Stages, Answers
  <1>2. authCall' \in [Flows -> CallType] /\ authCall'[c] = CallOf(authCall[c], st, a, t)
        /\ \A d \in Flows \ {c} : authCall'[d] = authCall[d]
    BY <1>1 DEF Types
  <1> QED BY <1>2 DEF Moved, CallOf

\* An answer without a token.
LEMMA ReplyMoves ==
  ASSUME Types, NEW c \in Flows, NEW a \in Answers, Auth!Reply(c, a)
  PROVE  Moved(c, "replied", a, authCall[c].fresh)
  <1>1. authCall[c] \in CallType /\ authCall[c].fresh \in Tokens \cup {NoToken}
    BY DEF Types, CallType
  <1>2. authCall' = [authCall EXCEPT ![c] =
                       [authCall[c] EXCEPT !.st = "replied", !.answer = a]]
    BY DEF Auth!Reply, Types
  <1>3. [authCall[c] EXCEPT !.st = "replied", !.answer = a] =
          CallOf(authCall[c], "replied", a, authCall[c].fresh)
    BY <1>1, AnswerFields
  <1> QED BY <1>1, <1>2, <1>3, Moves DEF Stages

\* A statement done.
LEMMA AdvanceMoves ==
  ASSUME Types, NEW c \in Flows, NEW st \in Stages, Auth!Advance(c, st)
  PROVE  Moved(c, st, authCall[c].answer, authCall[c].fresh)
  <1>1. [authCall[c] EXCEPT !.st = st] =
          CallOf(authCall[c], st, authCall[c].answer, authCall[c].fresh)
    BY DEF Types, CallType, CallOf
  <1>2. authCall' = [authCall EXCEPT ![c] = [authCall[c] EXCEPT !.st = st]]
    BY DEF Auth!Advance, Types
  <1>3. authCall[c].answer \in Answers /\ authCall[c].fresh \in Tokens \cup {NoToken}
    BY DEF Types, CallType, Answers
  <1> QED BY <1>1, <1>2, <1>3, Moves

\* The answer that carries a new token.
LEMMA IssueMoves ==
  ASSUME Types, NEW c \in Flows, NEW t \in Tokens,
         authCall' = [authCall EXCEPT ![c].st = "replied", ![c].answer = "ok", ![c].fresh = t]
  PROVE  Moved(c, "replied", "ok", t)
  <1>1. authCall' = [authCall EXCEPT ![c] =
                       [authCall[c] EXCEPT !.st = "replied", !.answer = "ok", !.fresh = t]]
    BY DEF Types
  <1>2. [authCall[c] EXCEPT !.st = "replied", !.answer = "ok", !.fresh = t] =
          CallOf(authCall[c], "replied", "ok", t)
    <2>1. authCall[c] \in CallType
      BY DEF Types
    <2> QED BY <2>1, IssueFields
  <1> QED BY <1>1, <1>2, Moves DEF Stages, Answers

-----------------------------------------------------------------------------
(* Every step of the service keeps the invariant *)

\* A step of the service with the request of c keeps the invariant, if it keeps what is
\* said of c, revokes no token but that of c, and answers none that was in use.
LEMMA ServiceStep ==
  ASSUME IInv, NEW c \in Flows, UNCHANGED <<browser, flowVars>>, Types',
         NEW st, NEW a, NEW t, Moved(c, st, a, t),
         expired \subseteq expired', users \subseteq users',
         \A k \in Tokens : owner[k] # NoEmail => owner'[k] = owner[k],
         revoked' = revoked \/ revoked' = revoked \cup {authCall[c].token},
         a = "ok" => owner[t] = NoEmail,
         CallSound(c)', FreshSound(c)', FlowSound(c)', Registered',
         authCall[c].op = "refresh" \/ revoked' = revoked
  PROVE  IInv'
  <1>1. ASSUME NEW d \in Flows, d # c
        PROVE  CallSound(d)'
    BY <1>1 DEF IInv, Types, CallType, Moved, CallSound, FreshSound
  <1>2. ASSUME NEW d \in Flows, d # c
        PROVE  FreshSound(d)'
    <2> SUFFICES ASSUME authCall[d].answer = "ok"
                 PROVE  FreshSound(d)'
      BY <1>2 DEF FreshSound, Moved
    <2> DEFINE u == authCall[d].fresh
    <2>1. /\ u \in Tokens /\ owner[u] # NoEmail /\ u \notin revoked /\ u # stored
          /\ \A e \in Flows : authCall[e].token # u
          /\ \A e \in Flows \ {d} : authCall[e].answer = "ok" => authCall[e].fresh # u
      BY DEF IInv, FreshSound
    <2>2. authCall'[d] = authCall[d] /\ owner'[u] = owner[u] /\ u \notin revoked'
      BY <1>2, <2>1 DEF Moved
    <2>3. \A e \in Flows : authCall'[e].token # u
      BY <2>1 DEF Moved
    <2>4. \A e \in Flows \ {d} : authCall'[e].answer = "ok" => authCall'[e].fresh # u
      BY <2>1 DEF Moved
    <2> QED BY <2>1, <2>2, <2>3, <2>4 DEF FreshSound, browser
  <1>3. ASSUME NEW d \in Flows, d # c
        PROVE  FlowSound(d)'
    BY <1>3 DEF IInv, Types, Moved, FlowSound, LockHeld, flowVars
  <1>4. LockHeld'
    BY DEF IInv, LockHeld, flowVars
  <1>5. StoredSound'
    <2>1. CASE stored \in revoked' /\ stored \notin revoked
      <3>1. stored = authCall[c].token /\ authCall[c].op = "refresh"
        BY <2>1
      <3> QED BY <3>1, TokenAssumption
             DEF IInv, Types, StoredSound, FlowSound, Moved, browser, flowVars
    <2>2. CASE ~(stored \in revoked' /\ stored \notin revoked)
      BY <2>2 DEF IInv, Types, StoredSound, Moved, browser, flowVars
    <2> QED BY <2>1, <2>2
  <1>6. RevokedIssued'
    BY DEF IInv, Types, RevokedIssued, CallSound
  <1> QED BY <1>1, <1>2, <1>3, <1>4, <1>5, <1>6 DEF IInv

\* An answer without a token, or a statement that writes nothing.
LEMMA QuietStep ==
  ASSUME IInv, NEW c \in Flows, UNCHANGED <<browser, flowVars>>, UNCHANGED Auth!authTables,
         NEW st \in Stages, NEW a \in Answers \ {"ok"},
         Moved(c, st, a, authCall[c].fresh),
         a # "none" => st = "replied", st \notin {"sent", "inserted", "revoked"},
         "locks" \in Features /\ a = "unauthorized" /\ pc[c] = "fetching" =>
           authCall[c].token \in expired \cup burnt
  PROVE  IInv'
  <1>1. Types'
    BY DEF IInv, Types, Moved, browser, flowVars, Auth!authTables
  <1>2. CallSound(c)' /\ FreshSound(c)'
    BY DEF IInv, CallSound, FreshSound, Moved, Auth!authTables
  <1>3. FlowSound(c)'
    BY DEF IInv, FlowSound, Moved, flowVars, Auth!authTables
  <1>4. Registered'
    BY DEF IInv, Registered, Inserted, Moved
  <1>5. /\ expired \subseteq expired' /\ users \subseteq users' /\ revoked' = revoked
        /\ owner' = owner
    BY DEF Auth!authTables
  <1> QED BY <1>1, <1>2, <1>3, <1>4, <1>5, ServiceStep

\* The SELECT of register.
LEMMA RegisterCheckKeeps ==
  ASSUME IInv, NEW c \in Flows, UNCHANGED <<browser, flowVars>>, Auth!RegisterCheck(c)
  PROVE  IInv'
  <1>1. Types /\ authCall[c].answer = "none" /\ UNCHANGED Auth!authTables
    BY DEF IInv, CallSound, Auth!RegisterCheck, Auth!At
  <1>2. Auth!Reply(c, "conflict") \/ Auth!Advance(c, "checked")
    BY DEF Auth!RegisterCheck
  <1>3. \/ Moved(c, "replied", "conflict", authCall[c].fresh)
        \/ Moved(c, "checked", "none", authCall[c].fresh)
    BY <1>1, <1>2, ReplyMoves, AdvanceMoves DEF Answers, Stages
  <1> QED BY <1>1, <1>3, QuietStep DEF Answers, Stages

\* The INSERT, which lets an e-mail pass once.
LEMMA RegisterInsertKeeps ==
  ASSUME IInv, NEW c \in Flows, UNCHANGED <<browser, flowVars>>, Auth!RegisterInsert(c)
  PROVE  IInv'
  <1>1. /\ Types /\ authCall[c].answer = "none" /\ authCall[c].op = "register"
        /\ authCall[c].st = "checked" /\ authCall[c].email \in Emails
    BY DEF IInv, CallSound, Auth!RegisterInsert, Auth!At
  <1>2. /\ users' = users \cup {authCall[c].email}
        /\ UNCHANGED <<owner, revoked, expired>>
    BY DEF Auth!RegisterInsert
  <1>3. CASE authCall[c].email \in users
    <2>1. Auth!Reply(c, "conflict") /\ users' = users
      BY <1>2, <1>3 DEF Auth!RegisterInsert
    <2>2. Moved(c, "replied", "conflict", authCall[c].fresh)
      BY <1>1, <2>1, ReplyMoves DEF Answers
    <2> QED BY <1>1, <1>2, <2>1, <2>2, QuietStep DEF Answers, Stages, Auth!authTables
  <1>4. CASE authCall[c].email \notin users
    <2>1. Moved(c, "inserted", "none", authCall[c].fresh)
      BY <1>1, <1>4, AdvanceMoves DEF Auth!RegisterInsert, Stages
    <2>2. Types'
      BY <1>1, <1>2, <2>1 DEF Types, Moved, browser, flowVars
    <2>3. CallSound(c)' /\ FreshSound(c)'
      BY <1>1, <1>2, <2>1 DEF IInv, CallSound, FreshSound, Moved
    <2>4. FlowSound(c)'
      BY <1>1, <1>2, <2>1 DEF IInv, FlowSound, Moved, flowVars
    <2>5. Registered'
      BY <1>1, <1>4, <2>1 DEF IInv, CallSound, Registered, Inserted, Moved
    <2> QED BY <1>2, <2>1, <2>2, <2>3, <2>4, <2>5, ServiceStep
  <1> QED BY <1>3, <1>4

\* The password, or a user there is not.
LEMMA LoginCheckKeeps ==
  ASSUME IInv, NEW c \in Flows, UNCHANGED <<browser, flowVars>>, Auth!LoginCheck(c)
  PROVE  IInv'
  <1>1. /\ Types /\ authCall[c].answer = "none" /\ UNCHANGED Auth!authTables
        /\ authCall[c].op = "login"
    BY DEF IInv, CallSound, Auth!LoginCheck, Auth!At
  <1>2. Auth!Reply(c, "unauthorized") \/ Auth!Advance(c, "checked")
    BY DEF Auth!LoginCheck
  <1>3. \/ Moved(c, "replied", "unauthorized", authCall[c].fresh)
        \/ Moved(c, "checked", "none", authCall[c].fresh)
    BY <1>1, <1>2, ReplyMoves, AdvanceMoves DEF Answers, Stages
  <1>4. pc[c] # "fetching"
    BY <1>1 DEF IInv, FlowSound
  <1> QED BY <1>1, <1>3, <1>4, QuietStep DEF Answers, Stages

\* The SELECT of refresh refuses an expired token, or one that was revoked: with a lock,
\* that one has been sent for exchange before.
LEMMA RefreshLookupKeeps ==
  ASSUME IInv, NEW c \in Flows, UNCHANGED <<browser, flowVars>>, Auth!RefreshLookup(c)
  PROVE  IInv'
  <1>1. /\ Types /\ authCall[c].answer = "none" /\ UNCHANGED Auth!authTables
        /\ authCall[c].op = "refresh" /\ authCall[c].st = "sent"
        /\ owner[authCall[c].token] # NoEmail
    BY DEF IInv, CallSound, Auth!RefreshLookup, Auth!At
  <1>2. \/ Auth!Reply(c, "unauthorized") /\ authCall[c].token \in revoked \cup expired
        \/ Auth!Advance(c, "checked")
    BY <1>1 DEF Auth!RefreshLookup
  <1>3. \/ /\ Moved(c, "replied", "unauthorized", authCall[c].fresh)
           /\ authCall[c].token \in revoked \cup expired
        \/ Moved(c, "checked", "none", authCall[c].fresh)
    BY <1>1, <1>2, ReplyMoves, AdvanceMoves DEF Answers, Stages
  <1>4. "locks" \in Features /\ pc[c] = "fetching" /\ authCall[c].token \in revoked =>
          authCall[c].token \in burnt
    BY <1>1 DEF IInv, FlowSound
  <1> QED BY <1>1, <1>3, <1>4, QuietStep DEF Answers, Stages

\* The UPDATE of refresh revokes a token that its caller holds or has burnt.
LEMMA RefreshRevokeKeeps ==
  ASSUME IInv, NEW c \in Flows, UNCHANGED <<browser, flowVars>>, Auth!RefreshRevoke(c)
  PROVE  IInv'
  <1>1. /\ Types /\ authCall[c].answer = "none"
        /\ authCall[c].op = "refresh" /\ authCall[c].st = "checked"
        /\ authCall[c].token \in Tokens
    BY DEF IInv, CallSound, Auth!RefreshRevoke, Auth!At
  <1>2. /\ revoked' = revoked \cup {authCall[c].token}
        /\ UNCHANGED <<users, owner, expired>>
    BY DEF Auth!RefreshRevoke
  <1>3. Moved(c, "revoked", "none", authCall[c].fresh)
    BY <1>1, AdvanceMoves DEF Auth!RefreshRevoke, Stages
  <1>4. Types'
    BY <1>1, <1>2, <1>3 DEF Types, Moved, browser, flowVars
  <1>5. CallSound(c)' /\ FreshSound(c)'
    BY <1>1, <1>2, <1>3 DEF IInv, CallSound, FreshSound, Moved
  <1>6. FlowSound(c)'
    BY <1>1, <1>2, <1>3 DEF IInv, FlowSound, Moved, flowVars
  <1>7. Registered'
    BY <1>1, <1>3 DEF IInv, Registered, Inserted, Moved
  <1> QED BY <1>1, <1>2, <1>3, <1>4, <1>5, <1>6, <1>7, ServiceStep

\* The INSERT of a new token, and the answer that carries it.
LEMMA IssueTokensKeeps ==
  ASSUME IInv, NEW c \in Flows, UNCHANGED <<browser, flowVars>>, Auth!IssueTokens(c)
  PROVE  IInv'
  <1>1. /\ Types /\ authCall[c].answer = "none"
        /\ \/ authCall[c].op = "register" /\ authCall[c].st = "inserted"
           \/ authCall[c].op = "login" /\ authCall[c].st = "checked"
           \/ authCall[c].op = "refresh" /\ authCall[c].st = "revoked"
    BY DEF IInv, CallSound, Auth!IssueTokens, Auth!At
  <1>2. UNCHANGED <<users, revoked, expired>>
    BY DEF Auth!IssueTokens
  <1>3. PICK t \in Tokens :
          /\ owner[t] = NoEmail
          /\ owner' = [owner EXCEPT ![t] = Auth!Subject(c)]
          /\ authCall' = [authCall EXCEPT ![c].st = "replied", ![c].answer = "ok", ![c].fresh = t]
    BY DEF Auth!IssueTokens, Auth!Unissued
  <1>4. Moved(c, "replied", "ok", t)
    BY <1>1, <1>3, IssueMoves
  <1>5. /\ Auth!Subject(c) \in Emails
        /\ authCall[c].op = "refresh" => Auth!Subject(c) = owner[authCall[c].token]
    BY <1>1 DEF IInv, Types, CallSound, Auth!Subject
  <1>6. /\ Types' /\ owner'[t] = Auth!Subject(c)
        /\ \A k \in Tokens \ {t} : owner'[k] = owner[k]
    BY <1>1, <1>2, <1>3, <1>4, <1>5 DEF Types, Moved, browser, flowVars
  <1>7. CallSound(c)'
    BY <1>1, <1>2, <1>3, <1>4, <1>5, <1>6 DEF IInv, CallSound, Moved
  <1>8. FreshSound(c)'
    <2>1. t \notin revoked /\ t # stored
      BY <1>1, <1>3, TokenAssumption DEF IInv, RevokedIssued, StoredSound
    <2>2. \A d \in Flows : authCall[d].token # t
      BY <1>3, TokenAssumption DEF IInv, CallSound
    <2>3. \A d \in Flows \ {c} : authCall[d].answer = "ok" => authCall[d].fresh # t
      BY <1>3 DEF IInv, FreshSound
    <2> QED BY <1>2, <1>4, <1>5, <1>6, <2>1, <2>2, <2>3, TokenAssumption
            DEF FreshSound, Moved, browser
  <1>9. FlowSound(c)'
    BY <1>1, <1>2, <1>4 DEF IInv, FlowSound, Moved, flowVars
  <1>10. Registered'
    BY <1>1, <1>4 DEF IInv, Registered, Inserted, Moved
  <1> QED BY <1>2, <1>3, <1>4, <1>6, <1>7, <1>8, <1>9, <1>10, ServiceStep

\* A query that rejects.
LEMMA AuthThrowKeeps ==
  ASSUME IInv, NEW c \in Flows, UNCHANGED <<browser, flowVars>>, Auth!AuthThrow(c)
  PROVE  IInv'
  <1>1. Types /\ UNCHANGED Auth!authTables /\ Auth!Reply(c, "error")
    BY DEF IInv, Auth!AuthThrow
  <1>2. Moved(c, "replied", "error", authCall[c].fresh)
    BY <1>1, ReplyMoves DEF Answers
  <1> QED BY <1>1, <1>2, QuietStep DEF Answers, Stages

\* A token expires.
LEMMA ExpireKeeps ==
  ASSUME IInv, NEW t \in Tokens, Expire(t)
  PROVE  IInv'
  <1>1. /\ expired' = expired \cup {t}
        /\ UNCHANGED <<browser, flowVars, users, owner, revoked, authCall>>
    BY DEF Expire, Auth!Expire
  <1>2. Types'
    BY <1>1 DEF IInv, Types, browser, flowVars
  <1> QED BY <1>1, <1>2
      DEF IInv, LockHeld, CallSound, FreshSound, FlowSound, Registered, Inserted, StoredSound,
          RevokedIssued, browser, flowVars

-----------------------------------------------------------------------------
(* Every step of the browser keeps the invariant *)

\* A request that has just been sent, or none.
NewCall(op, email, token) ==
  [op |-> op, st |-> IF op = "none" THEN "idle" ELSE "sent", email |-> email, token |-> token,
   answer |-> "none", fresh |-> NoToken]

\* The record a request is sent as.
LEMMA SendMakes ==
  ASSUME Types, NEW f \in Flows, NEW op \in {"register", "login", "refresh"},
         NEW email \in Emails \cup {NoEmail}, NEW token \in Tokens \cup {NoToken},
         Auth!Send(f, op, email, token)
  PROVE  /\ authCall' = [authCall EXCEPT ![f] = NewCall(op, email, token)]
         /\ authCall' \in [Flows -> CallType]
         /\ UNCHANGED Auth!authTables
  <1>1. [Auth!NoCall EXCEPT !.op = op, !.st = "sent", !.email = email, !.token = token] =
          NewCall(op, email, token)
    <2> DEFINE call(a, b, c, d) ==
                 [op |-> a, st |-> b, email |-> c, token |-> d, answer |-> "none",
                  fresh |-> NoToken]
               none == call("none", "idle", NoEmail, NoToken)
               opened == call(op, "idle", NoEmail, NoToken)
               sent == call(op, "sent", NoEmail, NoToken)
               named == call(op, "sent", email, NoToken)
    <2>1. Auth!NoCall = none
      BY DEF Auth!NoCall
    <2>2. [none EXCEPT !.op = op] = opened
      OBVIOUS
    <2>3. [opened EXCEPT !.st = "sent"] = sent
      OBVIOUS
    <2>4. [sent EXCEPT !.email = email] = named
      OBVIOUS
    <2>5. [named EXCEPT !.token = token] = NewCall(op, email, token)
      BY DEF NewCall
    <2>6. [none EXCEPT !.op = op, !.st = "sent", !.email = email, !.token = token] =
            [[[opened EXCEPT !.st = "sent"] EXCEPT !.email = email] EXCEPT !.token = token]
      <3> HIDE DEF none, opened
      <3> QED BY <2>2, Zenon
    <2> HIDE DEF none, opened, sent, named
    <2> QED BY <2>1, <2>3, <2>4, <2>5, <2>6, Zenon
  <1>2. NewCall(op, email, token) \in CallType
    BY DEF NewCall, CallType
  <1>3. authCall' = [authCall EXCEPT ![f] = NewCall(op, email, token)]
    BY <1>1, Zenon DEF Auth!Send
  <1> QED BY <1>2, <1>3 DEF Types, Auth!Send

\* The record that is left when the answer is taken.
LEMMA TakeMakes ==
  ASSUME Types, NEW f \in Flows, Auth!Take(f)
  PROVE  /\ authCall' = [authCall EXCEPT ![f] = NewCall("none", NoEmail, NoToken)]
         /\ authCall' \in [Flows -> CallType]
         /\ UNCHANGED Auth!authTables
  BY DEF Auth!Take, Auth!NoCall, NewCall, CallType, Types

\* The tokens of every tab.
LEMMA TokensTyped ==
  ASSUME Types, NEW t \in Tabs, NEW token \in Tokens \cup {NoToken}, SetTokens(t, token)
  PROVE  /\ stored' \in Tokens \cup {NoToken}
         /\ memory' \in [Tabs -> Tokens \cup {NoToken}]
         /\ inbox' \in [Tabs -> Seq(Tokens \cup {NoToken})]
  <1>1. inbox' \in [Tabs -> Seq(Tokens \cup {NoToken})]
    <2> SUFFICES ASSUME NEW u \in Tabs
                 PROVE  inbox'[u] \in Seq(Tokens \cup {NoToken})
      BY DEF SetTokens
    <2>1. inbox[u] \in Seq(Tokens \cup {NoToken})
      BY DEF Types
    <2> QED BY <2>1 DEF SetTokens
  <1> QED BY <1>1 DEF SetTokens, Types

\* A step of flow f keeps the invariant, if what it sends is the stored token, what it
\* stores was answered to it, and a token it gives up in exchange is stored no more or burnt.
LEMMA FlowMove ==
  ASSUME IInv, NEW f \in Flows, Types', LockHeld', UNCHANGED Auth!authTables,
         \A d \in Flows \ {f} : authCall'[d] = authCall[d] /\ pc'[d] = pc[d],
         burnt \subseteq burnt',
         \/ authCall'[f] = authCall[f]
         \/ \E op \in {"none", "register", "login"}, email \in Emails \cup {NoEmail} :
              /\ authCall'[f] = NewCall(op, email, NoToken)
              /\ op # "none" => email \in Emails
         \/ /\ authCall'[f] = NewCall("refresh", NoEmail, stored)
            /\ stored # NoToken /\ stored' = stored,
         \/ stored' = stored
         \/ stored' = NoToken
         \/ /\ stored' = authCall[f].fresh
            /\ authCall[f].answer = "ok" /\ authCall'[f].answer = "none",
         pc[f] = "fetching" /\ pc'[f] # "fetching" =>
           authCall[f].token \in burnt' \/ stored' # authCall[f].token,
         pc[f] = "fetching" /\ pc'[f] = "fetching" => authCall'[f] = authCall[f],
         FlowSound(f)'
  PROVE  IInv'
  <1>1. \/ authCall'[f] = authCall[f]
        \/ /\ authCall'[f].answer = "none" /\ authCall'[f].st \in {"idle", "sent"}
           /\ authCall'[f].op \in {"register", "login"} => authCall'[f].email \in Emails
           /\ authCall'[f].op # "refresh" => authCall'[f].token = NoToken
           /\ authCall'[f].op = "refresh" =>
                authCall'[f].token = stored /\ stored # NoToken /\ stored' = stored
    <2>1. CASE authCall'[f] = NewCall("refresh", NoEmail, stored)
               /\ stored # NoToken /\ stored' = stored
      BY <2>1 DEF NewCall
    <2>2. ASSUME NEW op \in {"none", "register", "login"}, NEW email \in Emails \cup {NoEmail},
                 authCall'[f] = NewCall(op, email, NoToken), op # "none" => email \in Emails
          PROVE  /\ authCall'[f].answer = "none" /\ authCall'[f].st \in {"idle", "sent"}
                 /\ authCall'[f].op \in {"register", "login"} => authCall'[f].email \in Emails
                 /\ authCall'[f].op # "refresh" /\ authCall'[f].token = NoToken
      BY <2>2 DEF NewCall
    <2> QED BY <2>1, <2>2
  <1>2. UNCHANGED <<users, owner, revoked, expired>>
    BY DEF Auth!authTables
  <1>3. ASSUME NEW d \in Flows
        PROVE  CallSound(d)'
    <2>1. CASE authCall'[d] = authCall[d]
      BY <1>2, <2>1 DEF IInv, CallSound
    <2>2. CASE d = f /\ authCall'[f] # authCall[f]
      BY <1>1, <1>2, <2>2 DEF IInv, Types, StoredSound, CallSound
    <2> QED BY <2>1, <2>2
  <1>4. ASSUME NEW d \in Flows
        PROVE  FreshSound(d)'
    <2> SUFFICES ASSUME authCall'[d].answer = "ok"
                 PROVE  FreshSound(d)'
      BY DEF FreshSound
    <2>1. authCall'[d] = authCall[d]
      BY <1>1
    <2> DEFINE u == authCall[d].fresh
    <2>2. /\ u \in Tokens /\ owner[u] # NoEmail /\ u \notin revoked /\ u # stored
          /\ \A e \in Flows : authCall[e].token # u
          /\ \A e \in Flows \ {d} : authCall[e].answer = "ok" => authCall[e].fresh # u
      BY <2>1 DEF IInv, FreshSound
    <2>3. u # stored'
      <3>1. CASE stored' = authCall[f].fresh /\ authCall[f].answer = "ok"
                 /\ authCall'[f].answer = "none"
        BY <2>2, <3>1
      <3> QED BY <2>2, <3>1, TokenAssumption
    <2>4. \A e \in Flows : authCall'[e].token # u
      BY <1>1, <2>2, TokenAssumption
    <2>5. \A e \in Flows \ {d} : authCall'[e].answer = "ok" => authCall'[e].fresh # u
      BY <1>1, <2>2
    <2> QED BY <1>2, <2>1, <2>2, <2>3, <2>4, <2>5 DEF FreshSound
  <1>5. ASSUME NEW d \in Flows, d # f
        PROVE  FlowSound(d)'
    BY <1>2, <1>5 DEF IInv, FlowSound
  <1>6. Registered'
    <2>1. \A d \in Flows : Inserted(d)' => Inserted(d) /\ authCall'[d] = authCall[d]
      BY <1>1 DEF Inserted
    <2> QED BY <2>1 DEF IInv, Registered
  <1>7. StoredSound'
    <2> SUFFICES ASSUME stored' # NoToken
                 PROVE  StoredSound'
      BY DEF StoredSound
    <2>1. CASE stored' = authCall[f].fresh /\ authCall[f].answer = "ok"
      BY <1>2, <2>1 DEF IInv, FreshSound, StoredSound
    <2>2. CASE stored' = stored
      <3>1. owner[stored] # NoEmail /\ (stored \in revoked =>
              stored \in burnt
              \/ \E g \in Flows : pc[g] = "fetching" /\ authCall[g].token = stored)
        BY <2>2 DEF IInv, StoredSound
      <3>2. ASSUME NEW g \in Flows, pc[g] = "fetching", authCall[g].token = stored
            PROVE  stored \in burnt' \/ (pc'[g] = "fetching" /\ authCall'[g].token = stored)
        BY <2>2, <3>2
      <3> QED BY <1>2, <2>2, <3>1, <3>2 DEF StoredSound
    <2> QED BY <2>1, <2>2
  <1>8. RevokedIssued'
    BY <1>2 DEF IInv, RevokedIssued
  <1> QED BY <1>3, <1>4, <1>5, <1>6, <1>7, <1>8 DEF IInv

\* A form is submitted.
LEMMA SubmitKeeps ==
  ASSUME IInv, NEW f \in Flows, NEW op \in {"register", "login"}, NEW email \in Emails,
         Submit(f, op, email)
  PROVE  IInv'
  <1>1. /\ Types /\ pc[f] = "idle" /\ pc' = [pc EXCEPT ![f] = "form"]
        /\ UNCHANGED <<stored, memory, inbox, lock, again, burnt>>
        /\ Auth!Send(f, op, email, NoToken)
    BY DEF IInv, Submit, browser
  <1>2. /\ authCall' = [authCall EXCEPT ![f] = NewCall(op, email, NoToken)]
        /\ authCall' \in [Flows -> CallType] /\ UNCHANGED Auth!authTables
    BY <1>1, SendMakes
  <1>3. authCall'[f] = NewCall(op, email, NoToken) /\ pc'[f] = "form"
        /\ \A d \in Flows \ {f} : authCall'[d] = authCall[d] /\ pc'[d] = pc[d]
    BY <1>1, <1>2 DEF Types
  <1>4. Types'
    BY <1>1, <1>2 DEF Types, Auth!authTables
  <1>5. LockHeld'
    BY <1>1, <1>3 DEF IInv, LockHeld
  <1>6. FlowSound(f)'
    BY <1>3 DEF FlowSound, NewCall
  <1> QED BY <1>1, <1>2, <1>3, <1>4, <1>5, <1>6, FlowMove

\* A flow that takes an answer, and is not at a refresh, ends or goes on to one.
LEMMA FormTaken ==
  ASSUME IInv, NEW f \in Flows, pc[f] \in {"form", "retried"}, Auth!Take(f),
         NEW q \in {"idle", "waiting"}, pc' = [pc EXCEPT ![f] = q],
         UNCHANGED <<lock, burnt>>, Types',
         stored' = stored \/ (stored' = authCall[f].fresh /\ authCall[f].answer = "ok")
  PROVE  IInv'
  <1>1. /\ authCall' = [authCall EXCEPT ![f] = NewCall("none", NoEmail, NoToken)]
        /\ UNCHANGED Auth!authTables
    BY TakeMakes DEF IInv
  <1>2. authCall'[f] = NewCall("none", NoEmail, NoToken) /\ pc'[f] = q
        /\ \A d \in Flows \ {f} : authCall'[d] = authCall[d] /\ pc'[d] = pc[d]
    BY <1>1 DEF IInv, Types
  <1>3. LockHeld'
    BY <1>2 DEF IInv, LockHeld
  <1>4. authCall'[f].answer = "none" /\ authCall'[f].op = "none"
    BY <1>2 DEF NewCall
  <1>5. FlowSound(f)'
    BY <1>2, <1>4 DEF FlowSound
  <1> QED BY <1>1, <1>2, <1>3, <1>4, <1>5, FlowMove

\* The answer to a form: the pair is stored.
LEMMA SubmitAnsweredKeeps ==
  ASSUME IInv, NEW f \in Flows, SubmitAnswered(f)
  PROVE  IInv'
  <1>1. /\ Types /\ SetTokens(TabOf[f], authCall[f].fresh) /\ Auth!Take(f)
        /\ pc' = [pc EXCEPT ![f] = "idle"] /\ UNCHANGED <<lock, again, burnt>>
        /\ authCall[f].fresh \in Tokens \cup {NoToken} /\ TabOf[f] \in Tabs
    BY FlowAssumption DEF IInv, Types, CallType, SubmitAnswered
  <1>2. Types'
    BY <1>1, TokensTyped, TakeMakes DEF Types, Auth!authTables
  <1> QED BY <1>1, <1>2, FormTaken DEF SubmitAnswered, SetTokens

\* A refused form, which asks for a refresh or gives up.
LEMMA SubmitRefusedKeeps ==
  ASSUME IInv, NEW f \in Flows, Unauthorized(f) \/ SubmitRefused(f)
  PROVE  IInv'
  <1>1. /\ Types /\ Auth!Take(f) /\ pc[f] \in {"form", "retried"}
        /\ authCall[f].email \in Emails \cup {NoEmail}
        /\ UNCHANGED <<stored, memory, inbox, lock, burnt>>
    BY DEF IInv, Types, CallType, Unauthorized, SubmitRefused, browser
  <1>2. /\ \E q \in {"idle", "waiting"} : pc' = [pc EXCEPT ![f] = q]
        /\ again' = again \/ again' = [again EXCEPT ![f] = authCall[f].email]
    BY DEF Unauthorized, SubmitRefused
  <1>3. Types'
    BY <1>1, <1>2, TakeMakes DEF Types, Auth!authTables
  <1> QED BY <1>1, <1>2, <1>3, FormTaken

\* A flow asks for the lock, or gets it and finds nothing to refresh.
LEMMA WaitKeeps ==
  ASSUME IInv, NEW f \in Flows, RequestLock(f) \/ NothingToRefresh(f)
  PROVE  IInv'
  <1>1. /\ Types /\ UNCHANGED <<stored, inbox, lock, burnt, users, owner, revoked, expired,
                                authCall>>
        /\ pc[f] \in {"idle", "waiting"}
        /\ \E q \in {"idle", "waiting"} : pc' = [pc EXCEPT ![f] = q]
        /\ memory' = memory \/ memory' = [memory EXCEPT ![TabOf[f]] = NoToken]
        /\ again' = again \/ again' = [again EXCEPT ![f] = NoEmail]
    BY DEF IInv, RequestLock, NothingToRefresh, browser, service
  <1>2. Types'
    BY <1>1, FlowAssumption DEF Types
  <1>3. /\ authCall'[f] = authCall[f] /\ pc'[f] \in {"idle", "waiting"}
        /\ \A d \in Flows \ {f} : authCall'[d] = authCall[d] /\ pc'[d] = pc[d]
    BY <1>1 DEF Types
  <1>4. LockHeld'
    BY <1>1, <1>3 DEF IInv, LockHeld
  <1>5. FlowSound(f)'
    BY <1>1, <1>3 DEF IInv, FlowSound
  <1>6. UNCHANGED Auth!authTables
    BY <1>1 DEF Auth!authTables
  <1> QED BY <1>1, <1>2, <1>3, <1>4, <1>5, <1>6, FlowMove

\* The stored token is sent: where there is a lock, nobody else has it in exchange.
LEMMA SendRefreshKeeps ==
  ASSUME IInv, NEW f \in Flows, SendRefresh(f)
  PROVE  IInv'
  <1>1. /\ Types /\ pc[f] = "waiting" /\ lock = NoFlow /\ stored # NoToken
        /\ lock' = IF "locks" \in Features THEN f ELSE lock
        /\ pc' = [pc EXCEPT ![f] = "fetching"]
        /\ memory' = [memory EXCEPT ![TabOf[f]] = stored]
        /\ Auth!Send(f, "refresh", NoEmail, stored)
        /\ UNCHANGED <<stored, inbox, again, burnt>>
    BY DEF IInv, SendRefresh, Current
  <1>2. /\ authCall' = [authCall EXCEPT ![f] = NewCall("refresh", NoEmail, stored)]
        /\ authCall' \in [Flows -> CallType] /\ UNCHANGED Auth!authTables
    BY <1>1, SendMakes DEF Types
  <1>3. authCall'[f] = NewCall("refresh", NoEmail, stored) /\ pc'[f] = "fetching"
        /\ \A d \in Flows \ {f} : authCall'[d] = authCall[d] /\ pc'[d] = pc[d]
    BY <1>1, <1>2 DEF Types
  <1>4. Types'
    BY <1>1, <1>2, FlowAssumption DEF Types, Auth!authTables
  <1>5. "locks" \in Features => \A d \in Flows : pc[d] # "fetching"
    BY <1>1, FlowAssumption DEF IInv, LockHeld
  <1>6. LockHeld'
    BY <1>1, <1>3, <1>5 DEF LockHeld
  <1>7. "locks" \in Features /\ stored \in revoked => stored \in burnt
    BY <1>1, <1>5 DEF IInv, StoredSound
  <1>8. FlowSound(f)'
    <2>1. /\ authCall'[f].op = "refresh" /\ authCall'[f].st = "sent"
          /\ authCall'[f].answer = "none" /\ authCall'[f].token = stored
      BY <1>3 DEF NewCall
    <2> QED BY <1>1, <1>2, <1>3, <1>7, <2>1 DEF FlowSound, Auth!authTables
  <1> QED BY <1>1, <1>2, <1>3, <1>4, <1>6, <1>8, FlowMove

\* The new pair is stored, and the lock released.
LEMMA RefreshedKeeps ==
  ASSUME IInv, NEW f \in Flows, Refreshed(f)
  PROVE  IInv'
  <1>1. /\ Types /\ pc[f] = "fetching" /\ authCall[f].answer = "ok"
        /\ authCall[f].fresh \in Tokens \cup {NoToken} /\ TabOf[f] \in Tabs
        /\ SetTokens(TabOf[f], authCall[f].fresh) /\ Unlock(f)
        /\ again' = [again EXCEPT ![f] = NoEmail] /\ UNCHANGED burnt
    BY FlowAssumption DEF IInv, Types, CallType, Refreshed, Auth!Answered
  <1>2. lock' = NoFlow /\ ("locks" \in Features => lock = f)
    BY <1>1 DEF IInv, LockHeld, Unlock
  <1>3. PICK op \in {"none", "login"}, email \in Emails \cup {NoEmail}, q \in {"idle", "retried"} :
          /\ authCall' = [authCall EXCEPT ![f] = NewCall(op, email, NoToken)]
          /\ authCall' \in [Flows -> CallType] /\ UNCHANGED Auth!authTables
          /\ op # "none" => email \in Emails
          /\ pc' = [pc EXCEPT ![f] = q]
          /\ q = "retried" => op = "login"
    <2>1. CASE again[f] = NoEmail
      BY <1>1, <2>1, TakeMakes DEF Refreshed
    <2>2. CASE again[f] # NoEmail
      <3>1. again[f] \in Emails /\ Auth!Send(f, "login", again[f], NoToken)
            /\ pc' = [pc EXCEPT ![f] = "retried"]
        BY <1>1, <2>2 DEF Types, Refreshed
      <3> QED BY <1>1, <3>1, SendMakes
    <2> QED BY <2>1, <2>2
  <1>4. authCall'[f] = NewCall(op, email, NoToken) /\ pc'[f] = q
        /\ \A d \in Flows \ {f} : authCall'[d] = authCall[d] /\ pc'[d] = pc[d]
    BY <1>1, <1>3 DEF Types
  <1>5. Types'
    BY <1>1, <1>2, <1>3, TokensTyped DEF Types, Auth!authTables
  <1>6. LockHeld'
    BY <1>2, <1>4, FlowAssumption DEF IInv, LockHeld
  <1>7. authCall'[f].answer = "none" /\ authCall'[f].op = op
    BY <1>4 DEF NewCall
  <1>8. FlowSound(f)'
    BY <1>3, <1>4, <1>7 DEF FlowSound
  <1>9. stored' = authCall[f].fresh /\ stored' # authCall[f].token
    BY <1>1 DEF IInv, FreshSound, SetTokens
  <1> QED BY <1>1, <1>3, <1>4, <1>5, <1>6, <1>7, <1>8, <1>9, FlowMove

\* Any other answer ends the session.
LEMMA NotRefreshedKeeps ==
  ASSUME IInv, NEW f \in Flows, NotRefreshed(f)
  PROVE  IInv'
  <1>1. /\ Types /\ pc[f] = "fetching" /\ TabOf[f] \in Tabs
        /\ SetTokens(TabOf[f], NoToken) /\ Unlock(f) /\ Auth!Take(f)
        /\ pc' = [pc EXCEPT ![f] = "idle"]
        /\ again' = [again EXCEPT ![f] = NoEmail] /\ UNCHANGED burnt
    BY FlowAssumption DEF IInv, NotRefreshed
  <1>2. lock' = NoFlow /\ ("locks" \in Features => lock = f)
    BY <1>1 DEF IInv, LockHeld, Unlock
  <1>3. /\ authCall' = [authCall EXCEPT ![f] = NewCall("none", NoEmail, NoToken)]
        /\ authCall' \in [Flows -> CallType] /\ UNCHANGED Auth!authTables
    BY <1>1, TakeMakes
  <1>4. authCall'[f] = NewCall("none", NoEmail, NoToken) /\ pc'[f] = "idle"
        /\ \A d \in Flows \ {f} : authCall'[d] = authCall[d] /\ pc'[d] = pc[d]
    BY <1>1, <1>3 DEF Types
  <1>5. Types'
    BY <1>1, <1>2, <1>3, TokensTyped DEF Types, Auth!authTables
  <1>6. LockHeld'
    BY <1>2, <1>4, FlowAssumption DEF IInv, LockHeld
  <1>7. FlowSound(f)'
    BY <1>4 DEF FlowSound, NewCall
  <1>8. stored' = NoToken /\ authCall[f].token # NoToken
    BY <1>1, TokenAssumption DEF IInv, FlowSound, CallSound, SetTokens
  <1> QED BY <1>1, <1>3, <1>4, <1>5, <1>6, <1>7, <1>8, FlowMove

\* A flow that is cut off burns the token it had in exchange.
LEMMA FetchRejectsKeeps ==
  ASSUME IInv, NEW f \in Flows, FetchRejects(f)
  PROVE  IInv'
  <1>1. /\ Types /\ pc' = [pc EXCEPT ![f] = "idle"] /\ again' = [again EXCEPT ![f] = NoEmail]
        /\ burnt' = burnt \cup Exchanging(f) /\ Unlock(f)
        /\ UNCHANGED <<stored, memory, inbox, users, owner, revoked, expired, authCall>>
    BY DEF IInv, FetchRejects, Abandon, browser, service
  <1>2. Exchanging(f) \subseteq Tokens
    BY DEF IInv, FlowSound, CallSound, Exchanging
  <1>3. Types'
    BY <1>1, <1>2 DEF Types, Unlock
  <1>4. /\ authCall'[f] = authCall[f] /\ pc'[f] = "idle"
        /\ \A d \in Flows \ {f} : authCall'[d] = authCall[d] /\ pc'[d] = pc[d]
    BY <1>1 DEF Types
  <1>5. LockHeld'
    BY <1>1, <1>4, FlowAssumption DEF IInv, LockHeld, Unlock
  <1>6. pc[f] = "fetching" => authCall[f].token \in burnt'
    BY <1>1 DEF Exchanging
  <1>7. FlowSound(f)'
    BY <1>1, <1>4, <1>6 DEF IInv, FlowSound
  <1>8. UNCHANGED Auth!authTables
    BY <1>1 DEF Auth!authTables
  <1> QED BY <1>1, <1>3, <1>4, <1>5, <1>6, <1>7, <1>8, FlowMove

\* A tab reads a message or logs out.
LEMMA ClearKeeps ==
  ASSUME IInv, NEW t \in Tabs, Receive(t) \/ logout(t)
  PROVE  IInv'
  <1>1. /\ UNCHANGED <<flowVars, service>>
        /\ stored' = stored \/ stored' = NoToken
    BY DEF Receive, logout, SetTokens
  <1>2. Types'
    <2>1. CASE Receive(t)
      <3>1. inbox[t] \in Seq(Tokens \cup {NoToken}) /\ inbox[t] # <<>>
        BY <2>1 DEF IInv, Types, Receive
      <3>2. /\ Head(inbox[t]) \in Tokens \cup {NoToken}
            /\ Tail(inbox[t]) \in Seq(Tokens \cup {NoToken})
        BY <3>1
      <3> QED BY <1>1, <2>1, <3>2 DEF IInv, Types, Receive, flowVars, service
    <2>2. CASE logout(t)
      <3>1. SetTokens(t, NoToken)
        BY <2>2 DEF logout
      <3> QED BY <1>1, <3>1, TokensTyped DEF IInv, Types, flowVars, service
    <2> QED BY <2>1, <2>2
  <1> QED BY <1>1, <1>2, TokenAssumption
      DEF IInv, LockHeld, CallSound, FreshSound, FlowSound, Registered, Inserted, StoredSound,
          RevokedIssued, flowVars, service

\* A tab that starts anew burns the token its refresh had in exchange.
LEMMA ReloadKeeps ==
  ASSUME IInv, NEW t \in Tabs, Reload(t)
  PROVE  IInv'
  <1> DEFINE mine == {f \in Flows : TabOf[f] = t}
  <1>1. /\ Types /\ memory' = [memory EXCEPT ![t] = stored]
        /\ inbox' = [inbox EXCEPT ![t] = <<>>]
        /\ pc' = [f \in Flows |-> IF f \in mine THEN "idle" ELSE pc[f]]
        /\ again' = [f \in Flows |-> IF f \in mine THEN NoEmail ELSE again[f]]
        /\ burnt' = burnt \cup UNION {Exchanging(f) : f \in mine}
        /\ lock' = IF lock \in mine THEN NoFlow ELSE lock
        /\ UNCHANGED <<stored, users, owner, revoked, expired, authCall>>
    BY DEF IInv, Reload, service
  <1>2. \A f \in Flows : Exchanging(f) \subseteq Tokens
    BY DEF IInv, FlowSound, CallSound, Exchanging
  <1>3. burnt' \subseteq Tokens /\ burnt \subseteq burnt'
    BY <1>1, <1>2 DEF Types
  <1>4. Types'
    BY <1>1, <1>3 DEF Types
  <1>5. \A f \in mine : pc'[f] = "idle" /\ (pc[f] = "fetching" => authCall[f].token \in burnt')
    <2> TAKE f \in mine
    <2>1. Exchanging(f) \subseteq burnt'
      BY <1>1
    <2> QED BY <1>1, <2>1 DEF Exchanging
  <1>6. \A f \in Flows \ mine : pc'[f] = pc[f]
    BY <1>1
  <1>7. LockHeld'
    BY <1>1, <1>5, <1>6, FlowAssumption DEF IInv, LockHeld
  <1>8. ASSUME NEW f \in Flows
        PROVE  CallSound(f)' /\ FreshSound(f)'
    BY <1>1 DEF IInv, CallSound, FreshSound
  <1>9. ASSUME NEW f \in Flows
        PROVE  FlowSound(f)'
    <2>1. FlowSound(f)
      BY DEF IInv
    <2> HIDE DEF mine
    <2>2. CASE f \in mine
      BY <1>1, <1>3, <1>5, <2>1, <2>2 DEF FlowSound
    <2>3. CASE f \notin mine
      BY <1>1, <1>3, <1>6, <2>1, <2>3 DEF FlowSound
    <2> QED BY <2>2, <2>3
  <1>10. StoredSound'
    <2> HIDE DEF mine
    <2> QED BY <1>1, <1>3, <1>5, <1>6 DEF IInv, StoredSound
  <1> QED BY <1>1, <1>4, <1>7, <1>8, <1>9, <1>10
      DEF IInv, Registered, Inserted, RevokedIssued

-----------------------------------------------------------------------------
(* What the session promises *)

\* Nobody has asked for anything, and no token has been issued.
LEMMA InitIInv == Init => IInv
  BY FlowAssumption
     DEF Init, IInv, Types, LockHeld, CallSound, FreshSound, FlowSound, Registered, Inserted,
         StoredSound, RevokedIssued, Auth!Init, Auth!NoCall, CallType

\* Every step of the browser or of the service is one of the above.
LEMMA StepKeeps ==
  ASSUME IInv, [Next]_vars
  PROVE  IInv'
  <1>1. ASSUME NEW t \in Tabs, Receive(t) \/ logout(t) \/ Reload(t)
        PROVE  IInv'
    BY <1>1, ClearKeeps, ReloadKeeps
  <1>2. ASSUME NEW f \in Flows, NEW op \in {"register", "login"}, NEW email \in Emails,
               Submit(f, op, email)
        PROVE  IInv'
    BY <1>2, SubmitKeeps
  <1>3. ASSUME NEW f \in Flows, RequestLock(f) \/ AcquireLock(f) \/ FlowStep(f) \/ FetchRejects(f)
        PROVE  IInv'
    BY <1>3, WaitKeeps, SendRefreshKeeps, SubmitAnsweredKeeps, SubmitRefusedKeeps, RefreshedKeeps,
       NotRefreshedKeeps, FetchRejectsKeeps
       DEF AcquireLock, FlowStep
  <1>4. ASSUME NEW f \in Flows, AuthStep(f)
        PROVE  IInv'
    BY <1>4, RegisterCheckKeeps, RegisterInsertKeeps, LoginCheckKeeps, RefreshLookupKeeps,
       RefreshRevokeKeeps, IssueTokensKeeps, AuthThrowKeeps
       DEF AuthStep, Auth!AuthDecide
  <1>5. ASSUME NEW t \in Tokens, Expire(t)
        PROVE  IInv'
    BY <1>5, ExpireKeeps
  <1>6. CASE UNCHANGED vars
    BY <1>6
       DEF IInv, Types, LockHeld, CallSound, FreshSound, FlowSound, Registered, Inserted,
           StoredSound, RevokedIssued, vars, browser, flowVars, service
  <1> QED BY <1>1, <1>2, <1>3, <1>4, <1>5, <1>6 DEF Next

\* The invariant holds in every reachable state.
THEOREM Invariance == Spec => []IInv
  BY InitIInv, StepKeeps, PTL DEF Spec

\* Every variable keeps its type, and the lock of a browser that has one is held by whoever
\* refreshes.
THEOREM TypeCorrect == Spec => []TypeOK
  <1>1. IInv => TypeOK
    <2> SUFFICES ASSUME IInv PROVE TypeOK
      OBVIOUS
    <2>1. \A t \in Tabs : \A i \in 1..Len(inbox[t]) : inbox[t][i] \in Tokens \cup {NoToken}
      <3> SUFFICES ASSUME NEW t \in Tabs, NEW i \in 1..Len(inbox[t])
                   PROVE  inbox[t][i] \in Tokens \cup {NoToken}
        OBVIOUS
      <3>1. inbox[t] \in Seq(Tokens \cup {NoToken})
        BY DEF IInv, Types
      <3> QED BY <3>1
    <2> QED BY <2>1 DEF IInv, Types, CallType, LockHeld, TypeOK, Auth!AuthTypeOK
  <1> QED BY <1>1, Invariance, PTL

\* "Two tabs refreshing simultaneously would ... log each other out": with any number of
\* tabs and flows of a browser that has Web Locks, a refresh is refused only a token that
\* expired or was cut off before.
THEOREM NoRace == Spec => []NotLoggedOutByRace
  <1>1. IInv => NotLoggedOutByRace
    BY DEF IInv, FlowSound, NotLoggedOutByRace, RaceLogsNobodyOut, Auth!Answered
  <1> QED BY <1>1, Invariance, PTL

\* Single use: in a browser that has Web Locks, two requests with one token get past the
\* lookup only if a call with it was cut off.
THEOREM SingleUse == Spec => []ExchangedOnce
  <1>1. IInv => ExchangedOnce
    BY DEF IInv, LockHeld, FlowSound, ExchangedOnce, PastLookup
  <1> QED BY <1>1, Invariance, PTL

\* "Old token is revoked, a new one is issued", to the same user, whatever the requests
\* of other tabs do between the statements of the rotation, in any browser.
THEOREM Rotation == Spec => []RotationSound
  <1>1. IInv => RotationSound
    BY DEF IInv, CallSound, FreshSound, RotationSound, Auth!RotationSound, Auth!Answered
  <1> QED BY <1>1, Invariance, PTL

\* Of the requests that register an e-mail, one is answered with a session.
THEOREM OneRegistration == Spec => []RegisteredOnce
  <1>1. IInv => RegisteredOnce
    BY DEF IInv, Registered, Inserted, RegisteredOnce, Auth!RegisteredOnce, Auth!Answered
  <1> QED BY <1>1, Invariance, PTL
=============================================================================
