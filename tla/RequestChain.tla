---------------------------- MODULE RequestChain ----------------------------
(* A request's way through the gateway (src/app/main.py): AuthMiddleware,  *)
(* PolicyMiddleware, HPCMiddleware and AuditMiddleware around the handler  *)
(* that the routing table picks, the headers that go upstream, and the     *)
(* audit events fired on the way with the tasks that publish them.         *)
(*                                                                         *)
(* Each gate decides for itself, from the raw path, whether it applies and *)
(* which service the request is for; the router decides again, from the    *)
(* path less the application's root_path and from the method, where it     *)
(* goes. A path is the sequence of its segments, as the gateway receives   *)
(* it. Token validation is IAMCache's matter and the /v1 handlers are      *)
(* BillableCall's; here they only succeed or fail.                         *)
EXTENDS Naturals, Sequences, FiniteSets

CONSTANTS
    Request,
    Call,        \* the calls made: [path, method]
    McpPrefixed, \* first segments that begin with "mcp"
    Header       \* the headers a client may send beside Authorization

ASSUME CallAssumption ==
    \A c \in Call : c.path \in Seq(STRING) /\ c.method \in STRING

VARIABLES
    call,        \* what each request asks for
    bearer,      \* the credential it carries: "none", "jwt" or "api_key"
    sent,        \* the other headers it carries
    up,          \* whether the process runs
    at,          \* how far it has come
    tries,       \* calls made to the engine it is waiting for
    user,        \* whether request.state.user is set
    token,       \* request.state.token
    pending,     \* audit events whose _emit task has not run yet
    status,      \* how it was answered
    (* history *)
    permission,  \* what the policy engine allowed it to do
    compute,     \* whether the HPC engine allowed it
    forwarded,   \* the service it was forwarded to
    upstream,    \* the headers it was forwarded with, and whose they are
    fired,       \* the audit events it has scheduled
    published,   \* those on the stream
    reported     \* those whose publication is logged as failed

input == <<call, bearer, sent, up>>
gates == <<user, token, permission, compute>>
relay == <<forwarded, upstream>>
trail == <<published, reported>>
vars == <<input, at, tries, gates, status, relay, fired, pending, trail>>

(* "404" stands for every answer of the router itself (404, 405, redirect).*)
Stage == {"auth", "policy", "asked", "hpc", "handler", "mcp", "answered", "dead"}
Status == {"none", "401", "403", "404", "500", "reply"}
Refusals == {"auth_failed", "policy_denied", "hpc_denied"}

----------------------------------------------------------------------------
(* Routing data *)

SERVICE_MAP == {"workbench", "tes", "toolserver", "model-registry", "rag",
                "servicenow", "billing", "auth"}

(* resolve_required_permission: None is what an unmapped service requires. *)
Requires(service) ==
    IF service \in {"workbench", "tes", "toolserver"} THEN "workflow.execute"
    ELSE IF service = "model-registry" THEN "model.use"
    ELSE IF service = "rag" THEN "dataset.read"
    ELSE IF service = "servicenow" THEN "servicenow_incident.read"
    ELSE IF service = "billing" THEN "usage.read"
    ELSE IF service = "auth" THEN "provider_keys.manage"
    ELSE "None"

(* No other first segment that matters here begins with "mcp". *)
ASSUME McpAssumption ==
    "mcp" \in McpPrefixed /\ McpPrefixed \cap (SERVICE_MAP \cup {"v1", "api", "_svc"}) = {}

HPC_COMPUTE_SERVICES == {"tes", "toolserver", "workbench"}

Segment(c, i) == IF i <= Len(c.path) THEN c.path[i] ELSE ""

(* is_public_research_submission *)
IsPublic(c) == c.path = <<"api", "v1", "research-inquiries">> /\ c.method \in {"POST", "OPTIONS"}

Exempt(c) == IsPublic(c) \/ Segment(c, 1) \in McpPrefixed
Root == {<<"health">>, <<>>, <<"version">>}
Docs == {<<"docs">>, <<"openapi.json">>}

AuthSkips(c)   == c.path \in Root \cup Docs \/ Exempt(c)
PolicySkips(c) == c.path \in Root \cup Docs \cup {<<"auth", "verify">>} \/ Exempt(c)
HPCSkips(c)    == c.path \in Root \/ Exempt(c) \/ Segment(c, 1) \notin HPC_COMPUTE_SERVICES

(* Mutant: the /v1 prefix stripped but the area taken as the service. *)
ServiceForPathNoMap(c) == IF Segment(c, 1) = "v1" THEN Segment(c, 2) ELSE Segment(c, 1)

(* service_for_path, as PolicyMiddleware sees the request. *)
ServiceForPath(c) ==
    IF Segment(c, 1) = "v1" /\ Segment(c, 2) = "literature" THEN "rag"
    ELSE IF Segment(c, 1) = "v1" /\ Segment(c, 2) = "provider-keys" THEN "auth"
    ELSE Segment(c, 1)

(* FastAPI(root_path="/_svc/gateway"): a path received with that prefix is *)
(* matched against the routes without it, once. The gates above read       *)
(* request.url.path, which keeps it.                                       *)
Under(c) == Segment(c, 1) = "_svc" /\ Segment(c, 2) = "gateway"
Routed(c) ==
    IF Under(c) THEN [path |-> SubSeq(c.path, 3, Len(c.path)), method |-> c.method] ELSE c

(* The routes of src/app/routes/v1.py, and the service each forwards to.   *)
V1Literature ==
    {<<"POST", "answers">>, <<"POST", "search">>, <<"GET", "studies">>, <<"GET", "domains">>}
V1Target(c) ==
    IF \E t \in V1Literature : c.path = <<"v1", "literature", t[2]>> /\ c.method = t[1] THEN "rag"
    ELSE IF c.path = <<"v1", "usage">> /\ c.method = "GET" THEN "billing"
    ELSE IF c.path = <<"v1", "models">> /\ c.method = "GET" THEN "itself"
    ELSE IF \/ c.path = <<"v1", "provider-keys">> /\ c.method = "GET"
            \/ /\ Len(c.path) = 3 /\ Segment(c, 1) = "v1" /\ Segment(c, 2) = "provider-keys"
               /\ c.method \in {"PUT", "DELETE"} THEN "auth"
    ELSE "none"

(* The handler of a path less root_path: first full match, in order of     *)
(* registration.                                                           *)
Match(c) ==
    IF c.path \in {<<"health">>, <<"version">>} \cup Docs /\ c.method = "GET" THEN "own"
    ELSE IF c.path = <<"auth", "verify">> /\ c.method = "GET" THEN "verify"
    ELSE IF V1Target(c) # "none" THEN "v1"
    ELSE IF IsPublic(c) THEN "inquiry"
    ELSE IF Segment(c, 1) = "mcp" /\ Len(c.path) > 1 THEN "mcp"
    ELSE IF Len(c.path) > 1 /\ c.method \in {"GET", "POST", "PUT", "DELETE"} THEN "gateway"
    ELSE "none"

(* Where that handler sends the request. *)
MatchTarget(c) ==
    IF Match(c) = "v1" THEN V1Target(c)
    ELSE IF Match(c) = "gateway" /\ Segment(c, 1) \in SERVICE_MAP THEN Segment(c, 1)
    ELSE "itself"

Route(c) == Match(Routed(c))
Target(c) == MatchTarget(Routed(c))

----------------------------------------------------------------------------
Init ==
    /\ call \in [Request -> Call]
    /\ bearer \in [Request -> {"none", "jwt", "api_key"}]
    /\ sent \in [Request -> {{}, Header}]
    /\ up = TRUE
    /\ at = [r \in Request |-> "auth"]
    /\ tries = [r \in Request |-> 0]
    /\ user = [r \in Request |-> FALSE]
    /\ token = [r \in Request |-> "none"]
    /\ status = [r \in Request |-> "none"]
    /\ permission = [r \in Request |-> "no"]
    /\ compute = [r \in Request |-> FALSE]
    /\ forwarded = [r \in Request |-> "none"]
    /\ upstream = [r \in Request |-> {}]
    /\ fired = [r \in Request |-> {}]
    /\ pending = fired
    /\ published = fired
    /\ reported = fired

Goto(r, s) == at' = [at EXCEPT ![r] = s] /\ UNCHANGED status
Answer(r, code) ==
    /\ at' = [at EXCEPT ![r] = "answered"]
    /\ status' = [status EXCEPT ![r] = code]

(* fire_audit, and the create_task of the catch-all route: the event is    *)
(* built now and published by a task of its own.                           *)
Fire(r, events) ==
    /\ fired' = [fired EXCEPT ![r] = @ \cup events]
    /\ pending' = [pending EXCEPT ![r] = @ \cup events]
Silent == UNCHANGED <<fired, pending>>

(* build_upstream_headers: the client's headers less the reserved ones,    *)
(* the gateway's own identity headers, and the validated token.            *)
GatewayHeaders == {"x-internal-service", "x-trace-id", "x-user-id", "x-organization-id",
                   "x-client-id", "x-permissions", "x-token-type"}
Reserved == GatewayHeaders \cup {"host", "content-length", "authorization"}
UpstreamHeaders(r) ==
    {<<h, "client">> : h \in sent[r] \ Reserved}
        \cup {<<h, "gateway">> : h \in GatewayHeaders}
        \cup (IF token[r] = "none" THEN {} ELSE {<<"authorization", token[r]>>})
Forward(r, service, headers) ==
    /\ forwarded' = [forwarded EXCEPT ![r] = service]
    /\ upstream' = [upstream EXCEPT ![r] = headers]

----------------------------------------------------------------------------
(* Mutants *)

(* a denial answered without its audit event *)
PolicyDenialSilent(r) ==
    /\ Answer(r, "403")
    /\ Silent
    /\ tries' = [tries EXCEPT ![r] = 0]

(* a retry that is not counted against the limit of two *)
PolicyUndecidedMiscounts(r) ==
    /\ tries' = [tries EXCEPT ![r] = @ + 1]
    /\ UNCHANGED <<at, status>>
    /\ Silent

----------------------------------------------------------------------------
(* AuthMiddleware *)

AuthSkip(r) ==
    /\ at[r] = "auth"
    /\ AuthSkips(call[r])
    /\ Goto(r, "policy")
    /\ Silent
    /\ UNCHANGED <<input, tries, gates, relay, trail>>

AuthAccepts(r) ==
    /\ at[r] = "auth"
    /\ ~AuthSkips(call[r])
    /\ bearer[r] # "none"
    /\ user' = [user EXCEPT ![r] = TRUE]
    /\ token' = [token EXCEPT ![r] = IF bearer[r] = "api_key" THEN "minted" ELSE "jwt"]
    /\ Goto(r, "policy")
    /\ Silent
    /\ UNCHANGED <<input, tries, permission, compute, relay, trail>>

(* No credential, or validate returned None. *)
AuthRejects(r) ==
    /\ at[r] = "auth"
    /\ ~AuthSkips(call[r])
    /\ Answer(r, "401")
    /\ Fire(r, {"auth_failed"})
    /\ UNCHANGED <<input, tries, gates, relay, trail>>

----------------------------------------------------------------------------
(* PolicyMiddleware and PolicyClient.evaluate *)

PolicySkip(r) ==
    /\ at[r] = "policy"
    /\ PolicySkips(call[r])
    /\ Goto(r, "hpc")
    /\ Silent
    /\ UNCHANGED <<input, tries, gates, relay, trail>>

(* No identity on the request: refused at once. *)
PolicyAsk(r) ==
    /\ at[r] = "policy"
    /\ ~PolicySkips(call[r])
    /\ IF user[r]
       THEN Goto(r, "asked") /\ Fire(r, {"iam_auth_success"})
       ELSE Answer(r, "403") /\ Silent
    /\ UNCHANGED <<input, tries, gates, relay, trail>>

PolicyAllows(r) ==
    /\ at[r] = "asked"
    /\ permission' = [permission EXCEPT ![r] = Requires(ServiceForPath(call[r]))]
    /\ Goto(r, "hpc")
    /\ Silent
    /\ tries' = [tries EXCEPT ![r] = 0]
    /\ UNCHANGED <<input, user, token, compute, relay, trail>>

PolicyDenial(r) ==
    /\ Answer(r, "403")
    /\ Fire(r, {"policy_denied"})
    /\ tries' = [tries EXCEPT ![r] = 0]

(* The engine says no, or cannot be reached. *)
PolicyDenies(r) ==
    /\ at[r] = "asked"
    /\ PolicyDenial(r)
    /\ UNCHANGED <<input, gates, relay, trail>>

(* A timeout is retried once, then the request is denied. *)
PolicyUndecided(r) ==
    IF tries[r] = 0
    THEN /\ tries' = [tries EXCEPT ![r] = 1]
         /\ UNCHANGED <<at, status>> /\ Silent
    ELSE PolicyDenial(r)

PolicyTimesOut(r) ==
    /\ at[r] = "asked"
    /\ PolicyUndecided(r)
    /\ UNCHANGED <<input, gates, relay, trail>>

(* An answer that is JSON but no object: the exception becomes a 500. *)
PolicyRaises(r) ==
    /\ at[r] = "asked"
    /\ Answer(r, "500")
    /\ Silent
    /\ UNCHANGED <<input, tries, gates, relay, trail>>

----------------------------------------------------------------------------
(* HPCMiddleware and HPCPolicyClient.evaluate *)

HPCSkip(r) ==
    /\ at[r] = "hpc"
    /\ HPCSkips(call[r])
    /\ Goto(r, IF Route(call[r]) = "mcp" THEN "mcp" ELSE "handler")
    /\ Silent
    /\ UNCHANGED <<input, tries, gates, relay, trail>>

HPCAllows(r) ==
    /\ at[r] = "hpc"
    /\ ~HPCSkips(call[r])
    /\ compute' = [compute EXCEPT ![r] = TRUE]
    /\ Goto(r, "handler")
    /\ Silent
    /\ tries' = [tries EXCEPT ![r] = 0]
    /\ UNCHANGED <<input, user, token, permission, relay, trail>>

HPCDenial(r) == Answer(r, "403") /\ Fire(r, {"hpc_denied"}) /\ tries' = [tries EXCEPT ![r] = 0]

HPCDenies(r) ==
    /\ at[r] = "hpc"
    /\ ~HPCSkips(call[r])
    /\ HPCDenial(r)
    /\ UNCHANGED <<input, gates, relay, trail>>

HPCRaises(r) ==
    /\ at[r] = "hpc"
    /\ ~HPCSkips(call[r])
    /\ Answer(r, "500")
    /\ Silent
    /\ UNCHANGED <<input, tries, gates, relay, trail>>

HPCTimesOut(r) ==
    /\ at[r] = "hpc"
    /\ ~HPCSkips(call[r])
    /\ IF tries[r] = 0
       THEN /\ tries' = [tries EXCEPT ![r] = 1]
            /\ UNCHANGED <<at, status>> /\ Silent
       ELSE HPCDenial(r)
    /\ UNCHANGED <<input, gates, relay, trail>>

----------------------------------------------------------------------------
(* The handler, with AuditMiddleware around it *)

(* MCPBearerAuthASGIMiddleware: only a valid API key gets further. The     *)
(* tools it then runs call this gateway's own /v1 routes with that key,    *)
(* as requests of their own. The mounted application strips "/mcp" and no  *)
(* more, so a path that came under root_path matches nothing inside it.    *)
McpGate(r) ==
    /\ at[r] = "mcp"
    /\ \/ Answer(r, "401")
       \/ bearer[r] = "api_key" /\ Answer(r, IF Under(call[r]) THEN "404" ELSE "reply")
    /\ Fire(r, {"request"})
    /\ UNCHANGED <<input, tries, gates, relay, trail>>

(* Answered without going upstream: the gateway's own routes, no route,    *)
(* an unknown service, or a /v1 handler that refuses the call.             *)
HandlerReplies(r) ==
    /\ at[r] = "handler"
    /\ Route(call[r]) # "gateway" \/ Target(call[r]) = "itself"
    /\ Answer(r, IF Route(call[r]) = "none" THEN "404" ELSE "reply")
    /\ Fire(r, {"request"})
    /\ UNCHANGED <<input, tries, gates, relay, trail>>

HandlerForwards(r) ==
    /\ at[r] = "handler"
    /\ Target(call[r]) # "itself"
    /\ Forward(r, Target(call[r]), UpstreamHeaders(r))
    /\ Answer(r, "reply")
    /\ Fire(r, IF Route(call[r]) = "gateway" THEN {"upstream_forward", "request"} ELSE {"request"})
    /\ UNCHANGED <<input, tries, gates, trail>>

(* The public relay: an inquiry of an anonymous sender goes to the inquiry *)
(* API, without any of its headers, and to no service of SERVICE_MAP       *)
(* (HandlerReplies is its refusal).                                        *)
InquiryRelays(r) ==
    /\ at[r] = "handler"
    /\ Route(call[r]) = "inquiry"
    /\ Forward(r, "inquiries", {})
    /\ Answer(r, "reply")
    /\ Fire(r, {"request"})
    /\ UNCHANGED <<input, tries, gates, trail>>

(* A /v1 handler raises after the upstream answered: AuditMiddleware's     *)
(* call_next raises with it.                                               *)
HandlerRaises(r) ==
    /\ at[r] = "handler"
    /\ Route(call[r]) = "v1"
    /\ Target(call[r]) # "itself"
    /\ Forward(r, Target(call[r]), UpstreamHeaders(r))
    /\ Answer(r, "500")
    /\ Silent
    /\ UNCHANGED <<input, tries, gates, trail>>

----------------------------------------------------------------------------
(* _emit: XADD of one event, and the log line of a failed one, which the   *)
(* stream may have taken all the same.                                     *)
Emit(r, e) ==
    /\ e \in pending[r]
    /\ pending' = [pending EXCEPT ![r] = @ \ {e}]
    /\ published' = [published EXCEPT ![r] = @ \cup {e}]
    /\ UNCHANGED <<input, at, tries, gates, status, relay, fired, reported>>

(* Mutant: the failure swallowed. *)
EmitFailsSilently(r, e) ==
    /\ e \in pending[r]
    /\ pending' = [pending EXCEPT ![r] = @ \ {e}]
    /\ UNCHANGED <<input, at, tries, gates, status, relay, fired, trail>>

EmitFails(r, e) ==
    /\ e \in pending[r]
    /\ pending' = [pending EXCEPT ![r] = @ \ {e}]
    /\ reported' = [reported EXCEPT ![r] = @ \cup {e}]
    /\ \/ published' = [published EXCEPT ![r] = @ \cup {e}]
       \/ UNCHANGED published
    /\ UNCHANGED <<input, at, tries, gates, status, relay, fired>>

(* The process stops: its requests die, and the tasks nobody awaited with  *)
(* them.                                                                   *)
Stop ==
    /\ up
    /\ up' = FALSE
    /\ at' = [r \in Request |-> IF at[r] = "answered" THEN "answered" ELSE "dead"]
    /\ pending' = [r \in Request |-> {}]
    /\ UNCHANGED <<call, bearer, sent, tries, gates, status, relay, fired, trail>>

----------------------------------------------------------------------------
Advance(r) ==
    \/ AuthSkip(r) \/ AuthAccepts(r) \/ AuthRejects(r)
    \/ PolicySkip(r) \/ PolicyAsk(r) \/ PolicyAllows(r) \/ PolicyDenies(r)
    \/ PolicyTimesOut(r) \/ PolicyRaises(r)
    \/ HPCSkip(r) \/ HPCAllows(r) \/ HPCDenies(r) \/ HPCTimesOut(r) \/ HPCRaises(r)
    \/ McpGate(r) \/ HandlerReplies(r) \/ HandlerForwards(r) \/ HandlerRaises(r)
    \/ InquiryRelays(r)

Publish(r) == \E e \in pending[r] : Emit(r, e) \/ EmitFails(r, e)

Next == Stop \/ \E r \in Request : Advance(r) \/ Publish(r)

Spec == Init /\ [][Next]_vars

(* Every await of a request ends (each engine and upstream call has a      *)
(* timeout), and the event loop runs every task to an answer or an error.  *)
FairSpec == Spec /\ \A r \in Request : WF_vars(Advance(r)) /\ WF_vars(Publish(r))

----------------------------------------------------------------------------
(* Properties *)

(* Requests are at a known point; no engine is asked more than twice. *)
TypeOK ==
    /\ at \in [Request -> Stage]
    /\ tries \in [Request -> 0..1]
    /\ user \in [Request -> BOOLEAN]
    /\ status \in [Request -> Status]
    /\ compute \in [Request -> BOOLEAN]
    /\ forwarded \in [Request -> SERVICE_MAP \cup {"none", "inquiries"}]
    /\ \A r \in Request : published[r] \cup reported[r] \cup pending[r] \subseteq fired[r]

(* The three gates and the router read the path each in its own way. They  *)
(* agree on every path that is not under root_path: such a request reaches *)
(* a service only as an authenticated user, with the HPC engine's consent  *)
(* for a compute service and the policy engine's consent to the permission *)
(* that service requires, but for two paths: /v1/usage, which the policy   *)
(* gate does not take for billing, and /auth/verify with a method other    *)
(* than GET, which the policy gate skips and the catch-all route forwards. *)
(* On a path under root_path they do NOT agree: the router strips          *)
(* /_svc/gateway and the gates do not. What is left there is that the user *)
(* is authenticated and the policy engine consented, asked about a service *)
(* "_svc" that requires no permission; the HPC engine is never asked. The  *)
(* inquiry API is reached by public inquiries, past the gates, and, under  *)
(* root_path, with those two consents.                                     *)
(* On every path the service sees the identity the gateway established and *)
(* no one else's: a client's own X-Organization-ID and the like never go   *)
(* upstream beside the gateway's, and "the raw omni_sk_ key never leaves   *)
(* the gateway".                                                           *)
Consented(r) == user[r] /\ permission[r] = "None"
Authorized(r) ==
    /\ forwarded[r] = "inquiries" => IF Under(call[r]) THEN Consented(r) ELSE IsPublic(call[r])
    /\ forwarded[r] \in SERVICE_MAP =>
        /\ user[r]
        /\ \A h \in upstream[r] : h[1] \in Reserved =>
               h[2] = (IF h[1] # "authorization" THEN "gateway"
                       ELSE IF bearer[r] = "api_key" THEN "minted" ELSE "jwt")
        /\ IF Under(call[r])
           THEN Consented(r)
           ELSE /\ forwarded[r] \in HPC_COMPUTE_SERVICES => compute[r]
                /\ \/ permission[r] = Requires(forwarded[r])
                   \/ call[r].path = <<"v1", "usage">> /\ permission[r] # "no"
                   \/ call[r].path = <<"auth", "verify">> /\ call[r].method # "GET"
ForwardAuthorized == \A r \in Request : Authorized(r)

(* The audit trail tells the truth: a refusal by a gate is on it (so the   *)
(* gate's unaudited "no user" branch is never taken), a request with a     *)
(* refusal on its trail went nowhere, and every request that was answered  *)
(* past the gates is on it, but for one whose handler raised.              *)
Truthful(r) ==
    /\ status[r] \in {"401", "403"} => fired[r] \cap Refusals # {} \/ Route(call[r]) = "mcp"
    /\ fired[r] \cap Refusals # {} => forwarded[r] = "none" /\ "request" \notin fired[r]
    /\ status[r] \in {"404", "reply"} => "request" \in fired[r]
TrailComplete == \A r \in Request : Truthful(r)

(* Every request is answered, whichever engines never answer, and leaves   *)
(* its trace: unless the process stops or the handler raised, at least one *)
(* audit event of it was fired, and each one fired is on the stream or     *)
(* reported as lost. A failed publication is "never silently swallowed".   *)
Accounted(r) ==
    /\ at[r] = "answered"
    /\ status[r] = "500" \/ fired[r] # {}
    /\ fired[r] \subseteq published[r] \cup reported[r]
EveryRequestAccounted ==
    \A r \in Request : at[r] = "auth" ~> (Accounted(r) \/ ~up)
=============================================================================
