---------------------------- MODULE AuthTokens ----------------------------
(***************************************************************************)
(* The auth service (apps/auth-service): registration, login and the         *)
(* rotation of refresh tokens.  No handler opens a transaction, so each      *)
(* query is a step.  emitUserCreated is best effort and changes nothing that  *)
(* is modelled; me only reads.                                              *)
(*                                                                          *)
(* A user is named by its e-mail.  A token stands for its hash: what is       *)
(* stored names it, and randomBytes never draws one twice.                   *)
(***************************************************************************)
EXTENDS Integers, FiniteSets

CONSTANTS Emails, NoEmail,
          Tokens, NoToken, \* refresh tokens; their number bounds how many are issued
          Callers,         \* requests in flight, one per caller
          Faults           \* "throw": a statement fails and the caller is told 500

VARIABLES users,      \* e-mails with a row in users
          owner,      \* refresh_tokens.user_id, NoEmail while the row is absent
          revoked,    \* tokens with refresh_tokens.revoked
          expired,    \* tokens whose expires_at has passed
          authCall    \* the requests: operation, progress and answer of each

authTables == <<users, owner, revoked, expired>>
authVars == <<authTables, authCall>>

NoCall == [op |-> "none", st |-> "idle", email |-> NoEmail, token |-> NoToken,
           answer |-> "none", fresh |-> NoToken]

Init ==
  /\ users = {}
  /\ owner = [t \in Tokens |-> NoEmail]
  /\ revoked = {}
  /\ expired = {}
  /\ authCall = [c \in Callers |-> NoCall]

InFlight(c) == authCall[c].st \in {"sent", "checked", "inserted", "revoked"}
Replied(c) == authCall[c].st = "replied"
Answered(c, op, answer) == Replied(c) /\ authCall[c].op = op /\ authCall[c].answer = answer
Unissued == {t \in Tokens : owner[t] = NoEmail}

Send(c, op, email, token) ==
  /\ ~InFlight(c)
  /\ authCall' = [authCall EXCEPT ![c] = [NoCall EXCEPT !.op = op, !.st = "sent",
                                                       !.email = email, !.token = token]]
  /\ UNCHANGED authTables

\* The caller has taken the answer.
Take(c) == authCall' = [authCall EXCEPT ![c] = NoCall] /\ UNCHANGED authTables

At(c, op, st) == authCall[c].op = op /\ authCall[c].st = st
Advance(c, st) == authCall' = [authCall EXCEPT ![c].st = st]
Reply(c, answer) == authCall' = [authCall EXCEPT ![c].st = "replied", ![c].answer = answer]

-----------------------------------------------------------------------------
\* The SELECT of register, a courtesy that two registrations may both pass.
RegisterCheck(c) ==
  /\ At(c, "register", "sent")
  /\ IF authCall[c].email \in users THEN Reply(c, "conflict") ELSE Advance(c, "checked")
  /\ UNCHANGED authTables

\* Mutant: users.email without its UNIQUE constraint.
RegisterInsertTwice(c) ==
  /\ At(c, "register", "checked")
  /\ Advance(c, "inserted")
  /\ users' = users \cup {authCall[c].email}
  /\ UNCHANGED <<owner, revoked, expired>>

\* The INSERT, where UNIQUE (email) decides: 23505 is answered as a conflict.
RegisterInsert(c) ==
  /\ At(c, "register", "checked")
  /\ IF authCall[c].email \in users THEN Reply(c, "conflict") ELSE Advance(c, "inserted")
  /\ users' = users \cup {authCall[c].email}
  /\ UNCHANGED <<owner, revoked, expired>>

\* The password is right, of a user there is, or the answer is 401.
LoginCheck(c) ==
  /\ At(c, "login", "sent")
  /\ \/ authCall[c].email \in users /\ Advance(c, "checked")
     \/ Reply(c, "unauthorized")
  /\ UNCHANGED authTables

\* SELECT ... AND NOT revoked AND expires_at > now().
RefreshLookup(c) ==
  /\ At(c, "refresh", "sent")
  /\ IF owner[authCall[c].token] # NoEmail /\ authCall[c].token \notin revoked \cup expired
       THEN Advance(c, "checked") ELSE Reply(c, "unauthorized")
  /\ UNCHANGED authTables

\* Mutant: the old token stays valid.
RefreshRevokeNothing(c) ==
  /\ At(c, "refresh", "checked")
  /\ Advance(c, "revoked")
  /\ UNCHANGED authTables

\* UPDATE ... SET revoked = true, whether it has been revoked since or not.
RefreshRevoke(c) ==
  /\ At(c, "refresh", "checked")
  /\ revoked' = revoked \cup {authCall[c].token}
  /\ Advance(c, "revoked")
  /\ UNCHANGED <<users, owner, expired>>

\* Whom the new token is for.
Subject(c) == IF authCall[c].op = "refresh" THEN owner[authCall[c].token] ELSE authCall[c].email

\* createRefreshToken and the answer that carries the new token.
IssueTokens(c) ==
  /\ At(c, "register", "inserted") \/ At(c, "login", "checked") \/ At(c, "refresh", "revoked")
  /\ \E t \in Unissued :
       /\ owner' = [owner EXCEPT ![t] = Subject(c)]
       /\ authCall' = [authCall EXCEPT ![c].st = "replied", ![c].answer = "ok", ![c].fresh = t]
  /\ UNCHANGED <<users, revoked, expired>>

\* A query rejects: 500, and what was done stays done.
AuthThrow(c) == "throw" \in Faults /\ InFlight(c) /\ Reply(c, "error") /\ UNCHANGED authTables

AuthDecide(c) ==
  \/ RegisterCheck(c)
  \/ RegisterInsert(c)
  \/ LoginCheck(c)
  \/ RefreshLookup(c)
  \/ RefreshRevoke(c)
  \/ IssueTokens(c)

\* REFRESH_TTL_DAYS have passed since the token was issued.
Expire(t) ==
  /\ t \notin Unissued \cup expired
  /\ expired' = expired \cup {t}
  /\ UNCHANGED <<users, owner, revoked, authCall>>

-----------------------------------------------------------------------------
(* Properties *)

\* Every variable holds a value of its column's or message's type.
AuthTypeOK ==
  /\ users \subseteq Emails
  /\ owner \in [Tokens -> Emails \cup {NoEmail}]
  /\ revoked \subseteq Tokens /\ expired \subseteq Tokens
  /\ authCall \in [Callers ->
       [op     : {"none", "register", "login", "refresh"},
        st     : {"idle", "sent", "checked", "inserted", "revoked", "replied"},
        email  : Emails \cup {NoEmail},
        token  : Tokens \cup {NoToken},
        answer : {"none", "ok", "conflict", "unauthorized", "error"},
        fresh  : Tokens \cup {NoToken}]]

\* "Rotates: old token is revoked, a new one is issued": who is answered a new pair has
\* used up the token it came with, and the new one is another token of the same user.
RotationSound ==
  \A c \in Callers : Answered(c, "refresh", "ok") =>
    /\ authCall[c].token \in revoked
    /\ authCall[c].fresh # authCall[c].token
    /\ owner[authCall[c].fresh] = owner[authCall[c].token]

\* "Two concurrent requests can both pass" the pre-check; one of them is told 409.
RegisteredOnce ==
  \A c, d \in Callers :
    Answered(c, "register", "ok") /\ Answered(d, "register", "ok")
      /\ authCall[c].email = authCall[d].email => c = d
=============================================================================
