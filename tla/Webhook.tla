-------------------------------- MODULE Webhook --------------------------------
(***************************************************************************)
(* The webhook route: its gates, in order, and the durable rate limiter    *)
(* they end with (sendblue_webhook, durable_rate_ok, check_and_increment), *)
(* beside the cron route, whose hygiene reaps the limiter's rows.          *)
(*                                                                         *)
(* A request runs in an invocation of its own.  Everything before the      *)
(* first database access is one step; connecting, counting and handling    *)
(* are steps of their own, for each of them may wait or fail.  The clock   *)
(* is read before the count is sent, so a count may reach the database     *)
(* when its window is over.  There is one valid token and hence one key.   *)
(***************************************************************************)
EXTENDS Integers, FiniteSets

CONSTANTS
  Invocations,    \* concurrent invocations
  RateWindow,     \* ANDY_INBOUND_RATE_WINDOW_SECONDS
  RateLimit,      \* ANDY_INBOUND_RATE_LIMIT
  SigningSecret,  \* whether SENDBLUE_SIGNING_SECRET is set
  Keep,           \* 24 hours: what reap_inbound_rate_limits keeps
  MaxDuration,    \* vercel.json maxDuration
  MaxTime,        \* bound of the model: the last instant
  MaxRequests     \* bound of the model: requests that reach the limiter

\* window_seconds.max(1), limit.max(1)
Window == IF RateWindow < 1 THEN 1 ELSE RateWindow
Limit == IF RateLimit < 1 THEN 1 ELSE RateLimit

\* 60 seconds, 5 minutes and a day; the environment may set the window to
\* anything, and one longer than the retention is not limited at all.
ASSUME RateAssumption ==
  /\ RateWindow \in Int /\ RateLimit \in Int /\ SigningSecret \in BOOLEAN
  /\ Keep \in Nat /\ MaxDuration \in Nat
  /\ MaxTime \in Nat /\ MaxRequests \in Nat
  /\ Window + MaxDuration <= Keep

VARIABLES
  now,       \* the clock
  count,     \* table inbound_rate_limits by bucket_start; 0 is no row
  inv,       \* what each invocation is doing
  requests,  \* number of requests that reached the limiter
  stamped,   \* history: requests stamped in each window
  admitted,  \* history: requests admitted in each window
  answer     \* the answer the last step gave, if it gave one

vars == <<now, count, inv, requests, stamped, admitted, answer>>

-----------------------------------------------------------------------------
Times == 0..MaxTime

\* window_start: now truncated to a multiple of the window.
WindowStart(t) == t - (t % Window)

Bodies == {"unreadable", "large", "malformed", "ignored", "stranger", "message"}

\* What the gates look at: a declared length, the token, the header, the body.
\* "ignored" is an event parse_inbound acknowledges, "stranger" a message from
\* another phone than the allowed one.
\* A token that is absent or given twice is as good as a wrong one, and so is
\* an absent header.
Request == [declared: {"large", "small"}, token: {"wrong", "right"},
            secret: {"wrong", "right"}, body: Bodies]

\* webhook_token_valid and query_param; signing_secret_valid.
Authentic(r) ==
  /\ r.token = "right"
  /\ SigningSecret => r.secret = "right"

\* sendblue_webhook up to the pool: the status it answers with, or 0 to go on.
\* env tells whether the environment could be read.
Gate(r, env) ==
  CASE r.declared = "large"      -> 413
    [] ~env                      -> 500
    [] ~Authentic(r)             -> 401
    [] r.body = "unreadable"     -> 400
    [] r.body = "large"          -> 413
    [] r.body = "malformed"      -> 400
    [] r.body = "ignored"        -> 200
    [] OTHER                     -> 0

\* pc: pool = about to connect, stamp = about to read the clock, count = its
\* count is on the way, handle = admitted, reap = a cron run before its reap.
Invocation == [pc: {"idle", "pool", "stamp", "count", "handle", "reap"},
               started: Times, stamp: Times,
               authentic: BOOLEAN, message: BOOLEAN]

Idle == [pc |-> "idle", started |-> 0, stamp |-> 0,
         authentic |-> FALSE, message |-> FALSE]

Statuses == {200, 400, 401, 413, 429, 500, 503}

\* authentic, message: of the request that is answered.
Answer == [status: Statuses, authentic: BOOLEAN, message: BOOLEAN,
           handled: BOOLEAN, stamp: Times]

NoAnswer == [status |-> 0]

TypeOK ==
  /\ now \in Times
  /\ count \in [Times -> Nat]
  /\ inv \in [Invocations -> Invocation]
  /\ requests \in 0..MaxRequests
  /\ stamped \in [Times -> Nat] /\ admitted \in [Times -> Nat]
  /\ answer \in Answer \cup {NoAnswer}

Init ==
  /\ now = 0
  /\ count = [t \in Times |-> 0]
  /\ inv = [i \in Invocations |-> Idle]
  /\ requests = 0
  /\ stamped = [t \in Times |-> 0] /\ admitted = [t \in Times |-> 0]
  /\ answer = NoAnswer

\* The invocation is at point p, and maxDuration has not killed it.
At(i, p) == inv[i].pc = p /\ now <= inv[i].started + MaxDuration

Goto(i, p) == inv' = [inv EXCEPT ![i].pc = p]

\* The step answers no request.
Silent == answer' = NoAnswer

\* The invocation ends with an answer.
Reply(i, status, handled) ==
  /\ inv' = [inv EXCEPT ![i] = Idle]
  /\ answer' = [status |-> status, handled |-> handled,
                authentic |-> inv[i].authentic, message |-> inv[i].message,
                stamp |-> inv[i].stamp]

-----------------------------------------------------------------------------
(***************************************************************************)
(* sendblue_webhook.                                                       *)
(***************************************************************************)

\* A request one of the gates answers.
Refuse(r, env) ==
  /\ Gate(r, env) # 0
  /\ answer' = [status |-> Gate(r, env), handled |-> FALSE, stamp |-> 0,
                authentic |-> Authentic(r), message |-> r.body = "message"]
  /\ UNCHANGED <<now, count, inv, requests, stamped, admitted>>

\* A request that goes on to the database.
Arrive(i, r) ==
  /\ inv[i].pc = "idle"
  /\ requests < MaxRequests
  /\ Gate(r, TRUE) = 0
  /\ inv' = [inv EXCEPT ![i] = [Idle EXCEPT
       !.pc = "pool", !.started = now,
       !.authentic = Authentic(r), !.message = r.body = "message"]]
  /\ requests' = requests + 1
  /\ Silent
  /\ UNCHANGED <<now, count, stamped, admitted>>

\* resolve_pool
Connect(i) ==
  /\ At(i, "pool")
  /\ \/ Goto(i, "stamp") /\ Silent
     \/ Reply(i, 503, FALSE)
  /\ UNCHANGED <<now, count, requests, stamped, admitted>>

\* durable_rate_ok reads the clock and sends the upsert.
Stamp(i) ==
  /\ At(i, "stamp")
  /\ inv' = [inv EXCEPT ![i] = [@ EXCEPT !.pc = "count", !.stamp = now]]
  /\ stamped' = [stamped EXCEPT ![WindowStart(now)] = @ + 1]
  /\ Silent
  /\ UNCHANGED <<now, count, requests, admitted>>

\* Mutant: one window for ever.
Bucket_Fixed(i) == 0

\* The row a count goes to.
Bucket(i) == WindowStart(inv[i].stamp)

Increment(i) == count' = [count EXCEPT ![Bucket(i)] = @ + 1]

\* check_and_increment: the returned count against the limit.
Allowed(n) == n <= Limit

Count(i) ==
  /\ At(i, "count")
  /\ Increment(i)
  /\ \/ /\ Allowed(count[Bucket(i)] + 1)
        /\ Goto(i, "handle")
        /\ admitted' = [admitted EXCEPT ![WindowStart(inv[i].stamp)] = @ + 1]
        /\ Silent
     \/ /\ ~Allowed(count[Bucket(i)] + 1)
        /\ Reply(i, 429, FALSE)
        /\ UNCHANGED admitted
  /\ UNCHANGED <<now, requests, stamped>>

\* The statement fails, or its result is lost after it was executed: 503.
CountFails(i) ==
  /\ At(i, "count")
  /\ Increment(i) \/ UNCHANGED count
  /\ Reply(i, 503, FALSE)
  /\ UNCHANGED <<now, requests, stamped, admitted>>

\* Mutant: an error of the service is acknowledged.
StatusOf_Always200(ok) == 200

StatusOf(ok) == IF ok THEN 200 ELSE 500

\* InboundMessageService::handle (see Inbound; it returns at once for a phone
\* that is not allowed) and its result.
Handle(i, ok) ==
  /\ At(i, "handle")
  /\ Reply(i, StatusOf(ok), ok /\ inv[i].message)
  /\ UNCHANGED <<now, count, requests, stamped, admitted>>

\* The platform ends the invocation: no answer.
Abort(i) ==
  /\ inv[i].pc # "idle"
  /\ inv' = [inv EXCEPT ![i] = Idle]
  /\ Silent
  /\ UNCHANGED <<now, count, requests, stamped, admitted>>

-----------------------------------------------------------------------------
(***************************************************************************)
(* daily_cron, as far as the limiter's rows go, and the clock.             *)
(***************************************************************************)

\* daily_cron with the right bearer token; without it nothing happens.  The
\* run keeps the time of its start.
Cron(i) ==
  /\ inv[i].pc = "idle"
  /\ \E t \in Times : count[t] > 0
  /\ inv' = [inv EXCEPT ![i] = [Idle EXCEPT !.pc = "reap", !.started = now]]
  /\ Silent
  /\ UNCHANGED <<now, count, requests, stamped, admitted>>

\* Mutant: windows that are over are reaped at once.
Reapable_AtOnce(t, at) == t + Window <= at

\* bucket_start < now - keep
Reapable(t, at) == t + Keep < at

\* reap_inbound_rate_limits
Reap(i) ==
  /\ At(i, "reap")
  /\ count' = [t \in Times |->
       IF Reapable(t, inv[i].started) THEN 0 ELSE count[t]]
  /\ inv' = [inv EXCEPT ![i] = Idle]
  /\ Silent
  /\ UNCHANGED <<now, requests, stamped, admitted>>

Tick ==
  /\ now < MaxTime
  /\ now' = now + 1
  /\ Silent
  /\ UNCHANGED <<count, inv, requests, stamped, admitted>>

Next ==
  \/ \E r \in Request, env \in BOOLEAN : Refuse(r, env)
  \/ \E i \in Invocations :
       \/ \E r \in Request : Arrive(i, r)
       \/ Connect(i) \/ Stamp(i) \/ Count(i) \/ CountFails(i)
       \/ \E ok \in BOOLEAN : Handle(i, ok)
       \/ Abort(i) \/ Cron(i) \/ Reap(i)
  \/ Tick

Spec == Init /\ [][Next]_vars

-----------------------------------------------------------------------------
(***************************************************************************)
(* Properties.                                                             *)
(***************************************************************************)

\* At most Limit requests of one window reach the service, although they are
\* counted by concurrent invocations, a count may arrive when its window is
\* over, and the cron deletes rows meanwhile (check_and_increment,
\* reap_inbound_rate_limits).  An interval as long as a window meets two of
\* them, so it holds at most twice as many.
AdmittedPerWindow == \A t \in Times : admitted[t] <= Limit

\* Nobody but the holder of the token spends the budget: a 429 is given only
\* when more requests than the limit passed the gates in the same window, so
\* neither refused traffic nor the rows of other windows shut the user out.
LimitedOnlyWhenSpent ==
  answer # NoAnswer /\ answer.status = 429
    => stamped[WindowStart(answer.stamp)] > Limit

\* The provider stops redelivering at a 200.  A message of the user that passed
\* the gates is acknowledged only if the service has returned without an error
\* (an error of the model is none: the user is told of it); a limiter that
\* cannot count refuses (fail closed).  Nothing that is not authentic is handled.
AcknowledgedMeansHandled ==
  answer # NoAnswer =>
    /\ answer.handled => answer.authentic
    /\ answer.status = 200 /\ answer.message => answer.handled
=============================================================================
