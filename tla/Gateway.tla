------------------------------ MODULE Gateway ------------------------------
(***************************************************************************)
(* The API gateway (apps/api-gateway): what happens to a request between the  *)
(* browser and the service that handles it.  The limiter, the token check and  *)
(* the hand-over run in one step; the upstream answer or its timeout is        *)
(* another.  A handler whose request the gateway gave up on goes on.           *)
(*                                                                          *)
(* The age of an access token and the limiter's count are not kept: any request *)
(* may find its token expired, but one sent right after a refresh, or be one    *)
(* too many.  All operations here are the order service's, and none is public.  *)
(***************************************************************************)
EXTENDS Integers

CONSTANT Requests

VARIABLES op,     \* what each request asks for, a record whose field do names the operation
          leg,    \* where the browser's side of it is
          work,   \* where the service's handler of it is
          code,   \* the status it was answered with
          fresh   \* it left with a token that has just been refreshed

gatewayVars == <<op, leg, work, code, fresh>>

\* 429, 500 and 502: no page tells them apart.
Failure == 500
Nothing == [do |-> "none"]
InFlight(r) == leg[r] \in {"edge", "upstream"}
Open(r) == InFlight(r) \/ leg[r] = "answered"
Working(r) == work[r] \notin {"none", "ended"}
Begun(r) == work[r] \notin {"none", "new"}

\* new asks for what is sent, requests in dropped are forgotten, those in done are over:
\* nobody listens to them any more.
Transmit(new, dropped, done) ==
  LET Set(f, sent, gone, over) ==
        [r \in Requests |-> CASE r \in DOMAIN new -> sent[r]
                            [] r \in dropped \ DOMAIN new -> gone
                            [] r \in done \ (dropped \cup DOMAIN new) -> over[r]
                            [] OTHER -> f[r]]
      All(v) == [r \in Requests |-> v]
      still == [r \in Requests |-> IF Working(r) THEN work[r] ELSE "none"]
  IN  /\ op' = Set(op, new, Nothing, [r \in Requests |-> IF Working(r) THEN op[r] ELSE Nothing])
      /\ leg' = Set(leg, All("edge"), "idle", All("done"))
      /\ work' = Set(work, All("none"), "none", still)
      /\ code' = Set(code, All(0), 0, All(0))
      /\ fresh' = Set(fresh, All(FALSE), FALSE, All(FALSE))

AnswerWith(r, status) ==
  /\ leg' = [leg EXCEPT ![r] = "answered"]
  /\ code' = [code EXCEPT ![r] = status]
  /\ fresh' = [fresh EXCEPT ![r] = FALSE]
  /\ UNCHANGED <<op, work>>

\* express-rate-limit, before anything else.
TooMany(r) == leg[r] = "edge" /\ AnswerWith(r, Failure)

\* Mutant: the stream is requested with the token.
HasTokenAlways(r) == r \in Requests

\* An EventSource sends no Authorization header.
HasToken(r) == op[r].do # "stream"

\* edgeAuth: no token, or not a valid one any more.
Unauthorized(r) == leg[r] = "edge" /\ (HasToken(r) => ~fresh[r]) /\ AnswerWith(r, 401)

\* The proxy's error handler: nobody listens there.
UpstreamDown(r) == leg[r] = "edge" /\ HasToken(r) /\ AnswerWith(r, Failure)

\* The service's requireAuth verifies the same token at once.
Forward(r) ==
  /\ leg[r] = "edge" /\ HasToken(r)
  /\ leg' = [leg EXCEPT ![r] = "upstream"]
  /\ work' = [work EXCEPT ![r] = "new"]
  /\ fresh' = [fresh EXCEPT ![r] = FALSE]
  /\ UNCHANGED <<op, code>>

\* Mutant: no proxyTimeout: the proxy waits while the handler works.
GiveUpWhenOver(r) == leg[r] = "upstream" /\ ~Working(r) /\ AnswerWith(r, Failure)

\* Mutant: a request that takes too long is answered as a conflict.
GiveUpConflict(r) == leg[r] = "upstream" /\ AnswerWith(r, 409)

\* proxyTimeout, or a connection that breaks: the handler is not told.
GiveUp(r) == leg[r] = "upstream" /\ AnswerWith(r, Failure)

EdgeStep(r) == TooMany(r) \/ Unauthorized(r) \/ UpstreamDown(r) \/ Forward(r)

\* A handler ends: its answer passes if the gateway still waits for it.
End(r, status) ==
  /\ work' = [work EXCEPT ![r] = IF leg[r] # "done" /\ Begun(r) THEN "ended" ELSE "none"]
  /\ leg' = [leg EXCEPT ![r] = IF @ = "upstream" THEN "answered" ELSE @]
  /\ code' = [code EXCEPT ![r] = IF leg[r] = "upstream" THEN status ELSE @]
  /\ op' = [op EXCEPT ![r] = IF leg[r] = "done" THEN Nothing ELSE @]
  /\ UNCHANGED fresh

\* A handler goes on to its next await.
Proceed(r, place) ==
  /\ work' = [work EXCEPT ![r] = place]
  /\ UNCHANGED <<op, leg, code, fresh>>

\* Every field has a value of its type, and no handler works, and no answer is there,
\* before a request has reached the gateway.
GatewayTypeOK ==
  /\ leg \in [Requests -> {"idle", "edge", "upstream", "answered", "done"}]
  /\ code \in [Requests -> {0, 200, 401, 404, 409, Failure}]
  /\ fresh \in [Requests -> BOOLEAN]
  /\ \A r \in Requests : leg[r] \in {"idle", "edge"} => work[r] = "none" /\ code[r] = 0
=============================================================================
