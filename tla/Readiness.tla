----------------------------- MODULE Readiness -----------------------------
(***************************************************************************)
(* Requests to one API process, from the framework to the answer: what     *)
(* Nest rejects by itself, the global guards, interceptor and exception    *)
(* filter of AppModule around a handler, and the readiness probe, whose    *)
(* handler pings RabbitMQ over the publisher's connection.  Other handlers *)
(* are known by what they end in.                                          *)
(***************************************************************************)
EXTENDS RabbitPublisher

VARIABLES
  route,    \* [request -> the route it is served on, or NULL]
  answer,   \* what this step answered: route, status counted and sent, reached; or NULL
  reached   \* history: [request -> RabbitMQ was reachable since its admission]

vars == <<publisherVars, route, answer, reached>>

\* public: @Public; roles: @Roles; status: of the method or @HttpCode.
Routes == [ready |-> [public |-> TRUE,  roles |-> {},        status |-> 200],
           order |-> [public |-> FALSE, roles |-> {},        status |-> 201],
           users |-> [public |-> FALSE, roles |-> {"ADMIN"}, status |-> 200]]

ASSUME RoutesAssumption == NULL \notin DOMAIN Routes

\* What the Authorization header is worth: nothing, or a role.
Credentials == {NULL, "USER", "ADMIN"}

\* What a handler or a pipe throws: an HttpException, a unique violation that
\* was not caught, or anything else.
Exceptions == {"HttpException"} \X {400, 403, 404, 409} \cup {<<"P2002", NULL>>, <<"Error", NULL>>}
Statuses == 200 .. 599

\* What Nest throws before any guard: there is no such route, the body does
\* not parse or is too large, as an exception of its own or as it came.
Rejections == {"HttpException"} \X {400, 404, 413} \cup {<<"Error", NULL>>}

Answers == [route   : DOMAIN Routes \cup {NULL}, counted : Statuses \cup {NULL},
            sent    : Statuses,                  reached : BOOLEAN]

TypeOK == /\ PublisherTypeOK
          /\ route \in [Probes -> DOMAIN Routes \cup {NULL}]
          /\ answer \in Answers \cup {NULL}
          /\ reached \in [Probes -> BOOLEAN]

Init == /\ PublisherInit
        /\ route = [r \in Probes |-> NULL]
        /\ answer = NULL
        /\ reached = [r \in Probes |-> FALSE]

\* No request is answered or admitted.
Silent == answer' = NULL /\ UNCHANGED route

\* The publisher has a channel and the broker is there to answer on it.
Reachable == broker = "up" /\ channel # NULL /\ connection[channel] = "ready"

\* History, kept by every step.
Track == reached' = [r \in Probes |-> route'[r] = "ready" /\ (reached[r] \/ Reachable')]

-----------------------------------------------------------------------------
(* AllExceptionsFilter *)

StatusOf(exception) == CASE exception[1] = "HttpException" -> exception[2]
                         [] exception[1] = "P2002" -> 409
                         [] OTHER -> 500

\* The filter answers what never got to the interceptor: nothing is counted.
AnswerUncounted(status) ==
  answer' = [route |-> NULL, counted |-> NULL, sent |-> status, reached |-> FALSE]

\* The body parser and the router come before the guards.
Reject(r) ==
  /\ route[r] = NULL
  /\ \E exception \in Rejections : AnswerUncounted(StatusOf(exception))
  /\ UNCHANGED <<publisherVars, route>>

-----------------------------------------------------------------------------
(* ThrottlerGuard, JwtAuthGuard, RolesGuard *)

Authenticated(x, credential) == Routes[x].public \/ credential # NULL
Permitted(x, credential) == Routes[x].roles = {} \/ credential \in Routes[x].roles

\* The first guard that refuses; the throttler may at any time.
Refusals(x, credential) ==
  {429} \cup (IF ~Authenticated(x, credential) THEN {401}
              ELSE IF ~Permitted(x, credential) THEN {403} ELSE {})

\* Guards run before the interceptor.
Refuse(r, x, credential) ==
  /\ route[r] = NULL
  /\ \E status \in Refusals(x, credential) : AnswerUncounted(status)
  /\ UNCHANGED <<publisherVars, route>>

Admit(r, x, credential) ==
  /\ route[r] = NULL
  /\ Authenticated(x, credential) /\ Permitted(x, credential)
  /\ route' = [route EXCEPT ![r] = x]
  /\ answer' = NULL /\ UNCHANGED publisherVars

-----------------------------------------------------------------------------
(* HttpMetricsInterceptor around a handler *)

\* finalize: the response still has the route's status when it is counted; the
\* filter sets the status of an exception afterwards.
CountedStatus(r) == Routes[route[r]].status

Answer(r, status) ==
  /\ answer' = [route |-> route[r], counted |-> CountedStatus(r),
                sent  |-> status,   reached |-> reached[r]]
  /\ route' = [route EXCEPT ![r] = NULL]

\* Any other handler than ready.
Handle(r) ==
  /\ route[r] \notin {NULL, "ready"}
  /\ \/ Answer(r, Routes[route[r]].status)
     \/ \E exception \in Exceptions : Answer(r, StatusOf(exception))
  /\ UNCHANGED publisherVars

-----------------------------------------------------------------------------
(* HealthController.ready *)

Ping(r) ==
  /\ route[r] = "ready" /\ call[r] = "idle"
  /\ EnsureConnected(r)
  /\ Silent

\* A ping that rejects is not caught: the probe gets no answer.
UncaughtPing(r) ==
  /\ route[r] = "ready" /\ call[r] = "ok"
  /\ \E othersUp \in BOOLEAN : Answer(r, IF othersUp THEN 200 ELSE 503)
  /\ call' = [call EXCEPT ![r] = "idle"]
  /\ UNCHANGED <<broker, service, on, faults>>

\* allSettled: PostgreSQL and Redis have answered or failed as well.
Settled(r) ==
  /\ route[r] = "ready" /\ call[r] \in {"ok", "failed"}
  /\ \E othersUp \in BOOLEAN :
       Answer(r, IF othersUp /\ call[r] = "ok" THEN 200 ELSE 503)
  /\ call' = [call EXCEPT ![r] = "idle"]
  /\ UNCHANGED <<broker, service, on, faults>>

\* The process dies with its requests.
RequestsDie == Restart /\ route' = [r \in Probes |-> NULL] /\ answer' = NULL

Request(r) == \/ Reject(r)
              \/ \E x \in DOMAIN Routes, credential \in Credentials :
                   Refuse(r, x, credential) \/ Admit(r, x, credential)
              \/ Handle(r) \/ Ping(r) \/ Settled(r)

Act == \/ \E r \in Probes : Request(r)
       \/ PollerPublishes /\ Silent
       \/ (Progress \/ Trouble) /\ Silent
       \/ RequestsDie

Next == Act /\ Track

Spec == Init /\ [][Next]_vars

\* Handlers and library calls come to an end, lost connections are noticed
\* (heartbeat), and the orchestrator keeps probing: strong fairness, for other
\* requests come in between.
Fairness ==
  /\ \A n \in Connections :
       WF_vars(/\ Connected(n) \/ ConnectRejects(n) \/ SetUp(n) \/ Closed(n)
               /\ Silent /\ Track)
  /\ \A c \in Callers : WF_vars(Reply(c) /\ Silent /\ Track)
  /\ \A r \in Probes : WF_vars((Handle(r) \/ Ping(r) \/ Settled(r)) /\ Track)
  /\ SF_vars(\E r \in Probes : Admit(r, "ready", NULL) /\ Track)

FairSpec == Spec /\ Fairness

-----------------------------------------------------------------------------
(* Properties *)

\* Types, and a probe that is told ready was told so by RabbitMQ itself: the broker
\* was up and the publisher's channel worked at some time since the probe was
\* admitted.  A channel that is only believed to work, because its loss has
\* not been noticed, one that another caller sets up, and a broker that comes
\* and goes meanwhile make no probe ready (ping asks over the channel).
ReadyIsCurrent ==
  TypeOK /\ (answer # NULL /\ answer.route = "ready" /\ answer.sent = 200 => answer.reached)

\* A readiness probe is always answered: it hangs neither on a connection
\* that never comes about nor on a ping whose connection is lost.
ProbesAnswered == \A r \in Probes : route[r] = "ready" ~> route[r] # "ready"

=============================================================================
