------------------------- MODULE RequestChainProofs -------------------------
(* Proofs about RequestChain for every set of requests and calls, whatever *)
(* the paths, methods and headers: its types, that a request is forwarded  *)
(* only past the gates it needs and with the identity the gateway          *)
(* established, and that the audit trail tells what became of it.          *)
EXTENDS RequestChain, TLAPS

(* What the gates and the router make of a call that goes upstream. It     *)
(* goes to a known service and authentication does not skip it. Under      *)
(* root_path the policy gate asks about "_svc"; elsewhere the HPC gate     *)
(* does not skip a service that computes and the policy gate asks for what *)
(* the service requires, but for the two paths ForwardAuthorized excepts.  *)
Asked(c) == ~AuthSkips(c) /\ ~PolicySkips(c) /\ ServiceForPath(c) = "_svc"
Agreed(c) ==
    /\ ~AuthSkips(c)
    /\ Target(c) \in HPC_COMPUTE_SERVICES => ~HPCSkips(c)
    /\ \/ ~PolicySkips(c) /\ ServiceForPath(c) = Target(c)
       \/ ~PolicySkips(c) /\ c.path = <<"v1", "usage">>
       \/ c.path = <<"auth", "verify">> /\ c.method # "GET"
Consistent(c) ==
    Target(c) # "itself" =>
        Target(c) \in SERVICE_MAP /\ IF Under(c) THEN Asked(c) ELSE Agreed(c)

Event == Refusals \cup {"iam_auth_success", "upstream_forward", "request"}
Permission ==
    {"no", "None", "workflow.execute", "model.use", "dataset.read",
     "servicenow_incident.read", "usage.read", "provider_keys.manage"}
TokenOf(b) == IF b = "api_key" THEN "minted" ELSE "jwt"
HeaderLine == (Header \cup Reserved) \X {"client", "gateway", "minted", "jwt"}

(* Types of what TypeOK leaves open. *)
Typed ==
    /\ TypeOK
    /\ call \in [Request -> Call]
    /\ bearer \in [Request -> {"none", "jwt", "api_key"}]
    /\ sent \in [Request -> SUBSET Header]
    /\ token \in [Request -> {"none", "minted", "jwt"}]
    /\ permission \in [Request -> Permission]
    /\ upstream \in [Request -> SUBSET HeaderLine]
    /\ fired \in [Request -> SUBSET Event]
    /\ pending \in [Request -> SUBSET Event]
    /\ published \in [Request -> SUBSET Event]
    /\ reported \in [Request -> SUBSET Event]

(* Who has come past a gate was let through by it or is none of its        *)
(* business.                                                               *)
Passed(r) ==
    /\ at[r] \in {"policy", "asked", "hpc", "handler", "mcp"} =>
           AuthSkips(call[r]) \/ user[r]
    /\ at[r] \in {"hpc", "handler", "mcp"} =>
           PolicySkips(call[r]) \/ permission[r] = Requires(ServiceForPath(call[r]))
    /\ at[r] = "handler" => HPCSkips(call[r]) \/ compute[r]
    /\ at[r] = "mcp" => Route(call[r]) = "mcp"

(* A user's token is the one made from the credential that was checked. *)
OwnToken(r) == user[r] => token[r] = TokenOf(bearer[r])

(* Nothing has become of a request that has no answer yet. *)
Undecided(r) ==
    at[r] # "answered" =>
        /\ status[r] = "none" /\ forwarded[r] = "none"
        /\ fired[r] \cap (Refusals \cup {"request"}) = {}

Sound(r) == Passed(r) /\ OwnToken(r) /\ Undecided(r) /\ Authorized(r) /\ Truthful(r)
IInv == Typed /\ \A r \in Request : Sound(r)

----------------------------------------------------------------------------
(* Routing *)

(* A path of the first segment "v1", or of a service and with more behind  *)
(* it, is none of those that authentication skips.                         *)
LEMMA NotSkipped ==
    ASSUME NEW c \in Call, Len(c.path) > 1,
           Segment(c, 1) \in SERVICE_MAP \cup {"v1"}
    PROVE  ~Exempt(c) /\ c.path \notin Root \cup Docs
<1>0. c.path \in Seq(STRING)
  BY CallAssumption
<1>1. c.path[1] \in SERVICE_MAP \cup {"v1"}
  <2>1. Len(c.path) \in Nat
    BY <1>0
  <2>2. 1 <= Len(c.path)
    BY <2>1
  <2> QED BY <2>2 DEF Segment
<1>2. c.path # <<"api", "v1", "research-inquiries">>
  BY <1>1 DEF SERVICE_MAP
<1>3. Segment(c, 1) \notin McpPrefixed
  BY McpAssumption
<1>4. c.path # <<>> /\ c.path # <<"health">> /\ c.path # <<"version">>
      /\ c.path # <<"docs">> /\ c.path # <<"openapi.json">>
  <2>1. Len(<<>>) = 0 /\ \A x : Len(<<x>>) = 1
    OBVIOUS
  <2>2. Len(c.path) \in Nat
    BY <1>0
  <2>3. Len(c.path) # 0 /\ Len(c.path) # 1
    <3>1. \A n \in Nat : n > 1 => n # 0 /\ n # 1
      OBVIOUS
    <3> QED BY <2>2, <3>1
  <2> QED BY <2>1, <2>3, Zenon
<1> QED BY <1>2, <1>3, <1>4 DEF Exempt, IsPublic, Root, Docs

(* Where a /v1 route goes, read from its path. *)
LEMMA V1Paths ==
    ASSUME NEW c \in Call, V1Target(c) # "none", V1Target(c) # "itself"
    PROVE  /\ Len(c.path) > 1 /\ Segment(c, 1) = "v1"
           /\ \/ V1Target(c) = "rag" /\ Segment(c, 2) = "literature"
              \/ V1Target(c) = "auth" /\ Segment(c, 2) = "provider-keys"
              \/ V1Target(c) = "billing" /\ c.path = <<"v1", "usage">>
<1>0. c.path \in Seq(STRING)
  BY CallAssumption
<1>1. CASE \E t \in V1Literature : c.path = <<"v1", "literature", t[2]>> /\ c.method = t[1]
  <2>1. PICK t \in V1Literature : c.path = <<"v1", "literature", t[2]>> /\ c.method = t[1]
    BY <1>1
  <2>2. /\ Len(<<"v1", "literature", t[2]>>) = 3
        /\ <<"v1", "literature", t[2]>>[1] = "v1"
        /\ <<"v1", "literature", t[2]>>[2] = "literature"
    OBVIOUS
  <2>3. V1Target(c) = "rag"
    BY <1>1 DEF V1Target
  <2> QED BY <2>1, <2>2, <2>3 DEF Segment
<1>2. CASE c.path = <<"v1", "usage">>
  <2>1. /\ Len(<<"v1", "usage">>) = 2 /\ <<"v1", "usage">>[1] = "v1"
        /\ <<"v1", "usage">> # <<"v1", "models">>
        /\ <<"v1", "usage">> # <<"v1", "provider-keys">>
        /\ \A x : <<"v1", "usage">> # <<"v1", "literature", x>>
    OBVIOUS
  <2>2. V1Target(c) = "billing"
    BY <1>2, <2>1 DEF V1Target
  <2> QED BY <1>2, <2>1, <2>2 DEF Segment
<1>3. CASE c.path = <<"v1", "provider-keys">>
  <2>1. /\ Len(<<"v1", "provider-keys">>) = 2 /\ <<"v1", "provider-keys">>[1] = "v1"
        /\ <<"v1", "provider-keys">>[2] = "provider-keys"
        /\ <<"v1", "provider-keys">> # <<"v1", "models">>
        /\ <<"v1", "provider-keys">> # <<"v1", "usage">>
        /\ \A x : <<"v1", "provider-keys">> # <<"v1", "literature", x>>
    OBVIOUS
  <2>2. V1Target(c) = "auth"
    BY <1>3, <2>1 DEF V1Target
  <2> QED BY <1>3, <2>1, <2>2 DEF Segment
<1>4. CASE /\ Len(c.path) = 3 /\ Segment(c, 1) = "v1" /\ Segment(c, 2) = "provider-keys"
           /\ ~\E t \in V1Literature :
                 c.path = <<"v1", "literature", t[2]>> /\ c.method = t[1]
           /\ c.path # <<"v1", "usage">> /\ c.path # <<"v1", "provider-keys">>
  <2>1. V1Target(c) = "auth"
    BY <1>4 DEF V1Target
  <2> QED BY <1>4, <2>1
<1> QED BY <1>1, <1>2, <1>3, <1>4 DEF V1Target

(* Under root_path no gate skips the call but the HPC one, and the service *)
(* asked for is "_svc", wherever the call goes.                            *)
LEMMA UnderRoot ==
    ASSUME NEW c \in Call, Under(c)
    PROVE  Asked(c)
<1>0. c.path \in Seq(STRING) /\ Len(c.path) \in Nat
  BY CallAssumption
<1>1. /\ 1 <= Len(c.path) /\ 2 <= Len(c.path)
      /\ c.path[1] = "_svc" /\ Segment(c, 1) = "_svc"
  BY DEF Under, Segment
<1>2. Len(c.path) # 0 /\ Len(c.path) # 1
  <2>1. \A n \in Nat : 2 <= n => n # 0 /\ n # 1
    OBVIOUS
  <2> QED BY <1>0, <1>1, <2>1
<1>3. c.path # <<>> /\ c.path # <<"health">> /\ c.path # <<"version">>
      /\ c.path # <<"docs">> /\ c.path # <<"openapi.json">>
  <2>1. Len(<<>>) = 0 /\ \A x : Len(<<x>>) = 1
    OBVIOUS
  <2> QED BY <1>2, <2>1, Zenon
<1>4. /\ c.path # <<"api", "v1", "research-inquiries">>
      /\ c.path # <<"auth", "verify">>
  BY <1>1
<1>5. "_svc" \notin McpPrefixed
  BY McpAssumption
<1>6. ~AuthSkips(c) /\ ~PolicySkips(c)
  BY <1>1, <1>3, <1>4, <1>5 DEF AuthSkips, PolicySkips, Exempt, IsPublic, Root, Docs
<1>7. ServiceForPath(c) = "_svc"
  BY <1>1 DEF ServiceForPath
<1> QED BY <1>6, <1>7 DEF Asked

(* The gates and the router agree on every call that is not under          *)
(* root_path.                                                              *)
LEMMA GatesAgree ==
    ASSUME NEW c \in Call, ~Under(c), Target(c) # "itself"
    PROVE  Target(c) \in SERVICE_MAP /\ Agreed(c)
<1>0. Route(c) = Match(c) /\ Target(c) = MatchTarget(c)
  BY DEF Route, Target, Routed
<1>1. CASE Match(c) = "v1"
  <2>1. Target(c) = V1Target(c) /\ V1Target(c) # "none" /\ V1Target(c) # "itself"
    BY <1>0, <1>1 DEF MatchTarget, Match
  <2>2. /\ Len(c.path) > 1 /\ Segment(c, 1) = "v1"
        /\ \/ V1Target(c) = "rag" /\ Segment(c, 2) = "literature"
           \/ V1Target(c) = "auth" /\ Segment(c, 2) = "provider-keys"
           \/ V1Target(c) = "billing" /\ c.path = <<"v1", "usage">>
    BY <2>1, V1Paths
  <2>3. ~Exempt(c) /\ c.path \notin Root \cup Docs
    BY <2>2, NotSkipped
  <2>4. c.path # <<"auth", "verify">>
    <3>1. c.path \in Seq(STRING) /\ <<"auth", "verify">>[1] = "auth"
      BY CallAssumption
    <3>2. c.path = <<"auth", "verify">> => Segment(c, 1) \in {"auth", ""}
      BY <3>1 DEF Segment
    <3> QED BY <2>2, <3>2
  <2>5. ~AuthSkips(c) /\ ~PolicySkips(c)
    BY <2>3, <2>4 DEF AuthSkips, PolicySkips
  <2>6. Target(c) \in SERVICE_MAP /\ Target(c) \notin HPC_COMPUTE_SERVICES
    BY <2>1, <2>2 DEF SERVICE_MAP, HPC_COMPUTE_SERVICES
  <2> QED BY <2>1, <2>2, <2>5, <2>6 DEF ServiceForPath, Agreed
<1>2. CASE Match(c) # "v1"
  <2>1. /\ Match(c) = "gateway" /\ Segment(c, 1) \in SERVICE_MAP
        /\ Target(c) = Segment(c, 1)
    BY <1>0, <1>2 DEF MatchTarget
  <2>2. Len(c.path) > 1 /\ ~(c.path = <<"auth", "verify">> /\ c.method = "GET")
    BY <2>1 DEF Match
  <2>3. ~Exempt(c) /\ c.path \notin Root \cup Docs
    BY <2>1, <2>2, NotSkipped
  <2>4. ~AuthSkips(c) /\ (PolicySkips(c) => c.path = <<"auth", "verify">>)
    BY <2>3 DEF AuthSkips, PolicySkips
  <2>5. Target(c) \in HPC_COMPUTE_SERVICES => ~HPCSkips(c)
    BY <2>1, <2>3 DEF HPCSkips
  <2>6. ServiceForPath(c) = Target(c)
    BY <2>1 DEF ServiceForPath, SERVICE_MAP
  <2> QED BY <2>1, <2>2, <2>4, <2>5, <2>6 DEF Agreed
<1> QED BY <1>1, <1>2

(* Every call that goes upstream is consistent, under root_path or not. *)
LEMMA AllConsistent ==
    ASSUME NEW c \in Call
    PROVE  Consistent(c)
<1> SUFFICES ASSUME Target(c) # "itself"
             PROVE  Target(c) \in SERVICE_MAP /\ IF Under(c) THEN Asked(c) ELSE Agreed(c)
  BY DEF Consistent
<1>1. CASE ~Under(c)
  BY <1>1, GatesAgree
<1>2. CASE Under(c)
  <2>1. Asked(c)
    BY <1>2, UnderRoot
  <2> DEFINE q == Routed(c)
  <2>2. V1Target(q) \in {"rag", "billing", "itself", "auth", "none"}
    BY DEF V1Target
  <2>3. Match(q) = "v1" => V1Target(q) # "none"
    BY DEF Match
  <2>4. MatchTarget(q) # "itself"
    BY DEF Target
  <2> HIDE DEF q
  <2>5. MatchTarget(q) \in SERVICE_MAP
    BY <2>2, <2>3, <2>4 DEF MatchTarget, SERVICE_MAP
  <2> QED BY <1>2, <2>1, <2>5 DEF Target, q
<1> QED BY <1>1, <1>2

----------------------------------------------------------------------------
(* One request's step *)

(* Every service requires something, an unknown one "None". *)
LEMMA Required ==
    ASSUME NEW s
    PROVE  Requires(s) \in Permission /\ Requires(s) # "no"
BY DEF Requires, Permission

(* What is said of a request holds as long as its own state stays. *)
LEMMA Kept ==
    ASSUME NEW q \in Request, Sound(q), UNCHANGED <<call, bearer>>,
           at'[q] = at[q], user'[q] = user[q], token'[q] = token[q],
           status'[q] = status[q], permission'[q] = permission[q],
           compute'[q] = compute[q], forwarded'[q] = forwarded[q],
           upstream'[q] = upstream[q], fired'[q] = fired[q]
    PROVE  Sound(q)'
<1>1. Passed(q)' /\ OwnToken(q)' /\ Undecided(q)'
  BY DEF Sound, Passed, OwnToken, Undecided
<1>2. Authorized(q)'
  BY DEF Sound, Authorized, Consented
<1>3. Truthful(q)'
  BY DEF Sound, Truthful
<1> QED BY <1>1, <1>2, <1>3 DEF Sound

(* AuthMiddleware. *)
LEMMA AuthStep ==
    ASSUME IInv, NEW r \in Request, AuthSkip(r) \/ AuthAccepts(r) \/ AuthRejects(r)
    PROVE  IInv'
<1> USE DEF AuthSkip, AuthAccepts, AuthRejects, Goto, Answer, Silent, Fire,
            input, gates, relay, trail
<1>1. Typed /\ Sound(r) /\ Undecided(r)
  BY DEF IInv, Sound
<1>2. Typed'
  <2>1. /\ at' \in [Request -> Stage] /\ user' \in [Request -> BOOLEAN]
        /\ status' \in [Request -> Status]
    BY <1>1 DEF Typed, TypeOK, Stage, Status
  <2>2. /\ token' \in [Request -> {"none", "minted", "jwt"}]
        /\ fired' \in [Request -> SUBSET Event] /\ pending' \in [Request -> SUBSET Event]
    BY <1>1 DEF Typed, TypeOK, Event, Refusals
  <2>3. \A q \in Request : (published[q] \cup reported[q] \cup pending[q])' \subseteq fired'[q]
    BY <1>1 DEF Typed, TypeOK
  <2>4. TypeOK'
    BY <1>1, <2>1, <2>3 DEF Typed, TypeOK
  <2> QED BY <1>1, <2>2, <2>4 DEF Typed
<1>3. ASSUME NEW q \in Request, q # r PROVE Sound(q)'
  <2>1. Sound(q)
    BY DEF IInv
  <2> QED BY <1>1, <1>3, <2>1, Kept DEF Typed, TypeOK
<1>4. Sound(r)'
  <2>1. Passed(r)'
    BY <1>1 DEF Typed, TypeOK, Passed
  <2>2. OwnToken(r)'
    BY <1>1 DEF Typed, TypeOK, Sound, OwnToken, TokenOf
  <2>3. Undecided(r)' /\ forwarded'[r] = "none"
    BY <1>1 DEF Typed, TypeOK, Undecided
  <2>4. Authorized(r)'
    BY <2>3 DEF Authorized, SERVICE_MAP
  <2>5. Truthful(r)'
    BY <1>1, <2>3 DEF Typed, TypeOK, Undecided, Truthful, Refusals
  <2> QED BY <2>1, <2>2, <2>3, <2>4, <2>5 DEF Sound
<1> QED BY <1>2, <1>3, <1>4 DEF IInv

(* PolicyMiddleware. A request it asks about has an identity: whom         *)
(* authentication skips, the policy gate skips too.                        *)
LEMMA PolicyStep ==
    ASSUME IInv, NEW r \in Request,
           \/ PolicySkip(r) \/ PolicyAsk(r) \/ PolicyAllows(r) \/ PolicyDenies(r)
           \/ PolicyTimesOut(r) \/ PolicyRaises(r)
    PROVE  IInv'
<1> USE DEF PolicySkip, PolicyAsk, PolicyAllows, PolicyDenies, PolicyTimesOut,
            PolicyRaises, PolicyUndecided, PolicyDenial,
            Goto, Answer, Silent, Fire, input, gates, relay, trail
<1>1. Typed /\ Sound(r) /\ Passed(r) /\ Undecided(r)
  BY DEF IInv, Sound
<1>0. at[r] = "policy" /\ ~PolicySkips(call[r]) => user[r]
  <2>1. AuthSkips(call[r]) => PolicySkips(call[r])
    BY DEF AuthSkips, PolicySkips
  <2> QED BY <1>1, <2>1 DEF Passed
<1>2. Typed'
  <2>1. /\ at' \in [Request -> Stage] /\ status' \in [Request -> Status]
    BY <1>1 DEF Typed, TypeOK, Stage, Status
  <2>2. tries' \in [Request -> 0..1] /\ permission' \in [Request -> Permission]
    BY <1>1, Required DEF Typed, TypeOK
  <2>3. fired' \in [Request -> SUBSET Event] /\ pending' \in [Request -> SUBSET Event]
    BY <1>1 DEF Typed, TypeOK, Event, Refusals
  <2>4. \A q \in Request : (published[q] \cup reported[q] \cup pending[q])' \subseteq fired'[q]
    BY <1>1 DEF Typed, TypeOK
  <2>5. TypeOK'
    BY <1>1, <2>1, <2>2, <2>4 DEF Typed, TypeOK
  <2> QED BY <1>1, <2>2, <2>3, <2>5 DEF Typed
<1>3. ASSUME NEW q \in Request, q # r PROVE Sound(q)'
  <2>1. Sound(q)
    BY DEF IInv
  <2> QED BY <1>1, <1>3, <2>1, Kept DEF Typed, TypeOK
<1>4. Sound(r)'
  <2>1. Passed(r)'
    BY <1>1 DEF Typed, TypeOK, Passed
  <2>2. OwnToken(r)'
    BY <1>1 DEF Typed, TypeOK, Sound, OwnToken
  <2>3. Undecided(r)' /\ forwarded'[r] = "none"
    BY <1>1 DEF Typed, TypeOK, Undecided, Refusals
  <2>4. Authorized(r)'
    BY <2>3 DEF Authorized, SERVICE_MAP
  <2>5. Truthful(r)'
    <3>1. "request" \notin fired'[r]
      BY <1>1 DEF Typed, TypeOK, Undecided
    <3>2. status'[r] \in {"none", "403", "500"}
      BY <1>1 DEF Typed, TypeOK, Undecided
    <3>3. status'[r] = "403" => "policy_denied" \in fired'[r]
      BY <1>0, <1>1 DEF Typed, TypeOK, Undecided
    <3> QED BY <2>3, <3>1, <3>2, <3>3 DEF Truthful, Refusals
  <2> QED BY <2>1, <2>2, <2>3, <2>4, <2>5 DEF Sound
<1> QED BY <1>2, <1>3, <1>4 DEF IInv

(* HPCMiddleware. *)
LEMMA HPCStep ==
    ASSUME IInv, NEW r \in Request,
           HPCSkip(r) \/ HPCAllows(r) \/ HPCDenies(r) \/ HPCTimesOut(r) \/ HPCRaises(r)
    PROVE  IInv'
<1> USE DEF HPCSkip, HPCAllows, HPCDenies, HPCTimesOut, HPCRaises, HPCDenial,
            Goto, Answer, Silent, Fire, input, gates, relay, trail
<1>1. Typed /\ Sound(r) /\ Passed(r) /\ Undecided(r)
  BY DEF IInv, Sound
<1>2. Typed'
  <2>1. /\ at' \in [Request -> Stage] /\ status' \in [Request -> Status]
    BY <1>1 DEF Typed, TypeOK, Stage, Status
  <2>2. tries' \in [Request -> 0..1] /\ compute' \in [Request -> BOOLEAN]
    <3>1. tries' \in [Request -> 0..1]
      BY <1>1 DEF Typed, TypeOK
    <3>2. compute' = compute \/ compute' = [compute EXCEPT ![r] = TRUE]
      OBVIOUS
    <3>3. compute' \in [Request -> BOOLEAN]
      BY <1>1, <3>2 DEF Typed, TypeOK
    <3> QED BY <3>1, <3>3
  <2>3. fired' \in [Request -> SUBSET Event] /\ pending' \in [Request -> SUBSET Event]
    BY <1>1 DEF Typed, TypeOK, Event, Refusals
  <2>4. \A q \in Request : (published[q] \cup reported[q] \cup pending[q])' \subseteq fired'[q]
    BY <1>1 DEF Typed, TypeOK
  <2>5. TypeOK'
    BY <1>1, <2>1, <2>2, <2>4 DEF Typed, TypeOK
  <2> QED BY <1>1, <2>2, <2>3, <2>5 DEF Typed
<1>3. ASSUME NEW q \in Request, q # r PROVE Sound(q)'
  <2>1. Sound(q)
    BY DEF IInv
  <2> QED BY <1>1, <1>3, <2>1, Kept DEF Typed, TypeOK
<1>4. Sound(r)'
  <2>1. Passed(r)'
    BY <1>1 DEF Typed, TypeOK, Passed
  <2>2. OwnToken(r)'
    BY <1>1 DEF Typed, TypeOK, Sound, OwnToken
  <2>3. Undecided(r)' /\ forwarded'[r] = "none"
    BY <1>1 DEF Typed, TypeOK, Undecided, Refusals
  <2>4. Authorized(r)'
    BY <2>3 DEF Authorized, SERVICE_MAP
  <2>5. Truthful(r)'
    BY <1>1, <2>3 DEF Typed, TypeOK, Undecided, Truthful, Refusals
  <2> QED BY <2>1, <2>2, <2>3, <2>4, <2>5 DEF Sound
<1> QED BY <1>2, <1>3, <1>4 DEF IInv

(* A handler, or the MCP gate, answers without going upstream. *)
LEMMA ReplyStep ==
    ASSUME IInv, NEW r \in Request,
           McpGate(r) \/ HandlerReplies(r)
    PROVE  IInv'
<1> USE DEF McpGate, HandlerReplies,
            Goto, Answer, Silent, Fire, input, gates, relay, trail
<1>1. Typed /\ Sound(r) /\ Passed(r) /\ Undecided(r)
  BY DEF IInv, Sound
<1>2. Typed'
  <2>1. /\ at' \in [Request -> Stage] /\ status' \in [Request -> Status]
    BY <1>1 DEF Typed, TypeOK, Stage, Status
  <2>2. tries' \in [Request -> 0..1]
    BY <1>1 DEF Typed, TypeOK
  <2>3. fired' \in [Request -> SUBSET Event] /\ pending' \in [Request -> SUBSET Event]
    BY <1>1 DEF Typed, TypeOK, Event, Refusals
  <2>4. \A q \in Request : (published[q] \cup reported[q] \cup pending[q])' \subseteq fired'[q]
    BY <1>1 DEF Typed, TypeOK
  <2>5. TypeOK'
    BY <1>1, <2>1, <2>2, <2>4 DEF Typed, TypeOK
  <2> QED BY <1>1, <2>2, <2>3, <2>5 DEF Typed
<1>3. ASSUME NEW q \in Request, q # r PROVE Sound(q)'
  <2>1. Sound(q)
    BY DEF IInv
  <2> QED BY <1>1, <1>3, <2>1, Kept DEF Typed, TypeOK
<1>4. Sound(r)'
  <2>1. Passed(r)'
    BY <1>1 DEF Typed, TypeOK, Passed
  <2>2. OwnToken(r)'
    BY <1>1 DEF Typed, TypeOK, Sound, OwnToken
  <2>3. Undecided(r)' /\ forwarded'[r] = "none"
    BY <1>1 DEF Typed, TypeOK, Undecided, Refusals
  <2>4. Authorized(r)'
    BY <2>3 DEF Authorized, SERVICE_MAP
  <2>5. Truthful(r)'
    BY <1>1, <2>3 DEF Typed, TypeOK, Passed, Undecided, Truthful, Refusals
  <2> QED BY <2>1, <2>2, <2>3, <2>4, <2>5 DEF Sound
<1> QED BY <1>2, <1>3, <1>4 DEF IInv

(* A handler forwards a call: by AllConsistent it passed the gates that    *)
(* its path shows to them, and its headers are the gateway's.              *)
LEMMA ForwardStep ==
    ASSUME IInv, NEW r \in Request,
           HandlerForwards(r) \/ HandlerRaises(r) \/ InquiryRelays(r)
    PROVE  IInv'
<1> USE DEF HandlerForwards, HandlerRaises, InquiryRelays, Forward,
            Answer, Silent, Fire, input, gates, relay, trail
<1> DEFINE c == call[r]
<1>1. /\ Typed /\ Sound(r) /\ Passed(r) /\ OwnToken(r) /\ Undecided(r)
      /\ at[r] = "handler" /\ c \in Call
  BY DEF IInv, Sound, Typed
<1>2. Consistent(c)
  BY <1>1, AllConsistent
<1>3. /\ UNCHANGED <<call, bearer, sent, up, tries, user, token, permission, compute,
                     published, reported>>
      /\ at' = [at EXCEPT ![r] = "answered"]
      /\ \/ status' = [status EXCEPT ![r] = "reply"] /\ "request" \in fired'[r]
         \/ status' = [status EXCEPT ![r] = "500"]
      /\ \A q \in Request : q # r => fired'[q] = fired[q]
  BY <1>1 DEF Typed
<1>4. \/ /\ Target(c) # "itself" /\ forwarded' = [forwarded EXCEPT ![r] = Target(c)]
         /\ upstream' = [upstream EXCEPT ![r] = UpstreamHeaders(r)]
      \/ /\ Route(c) = "inquiry" /\ forwarded' = [forwarded EXCEPT ![r] = "inquiries"]
         /\ upstream' = [upstream EXCEPT ![r] = {}]
  OBVIOUS
<1>5. UpstreamHeaders(r) \in SUBSET HeaderLine
  BY <1>1 DEF Typed, UpstreamHeaders, HeaderLine, Reserved
<1>6. Typed'
  <2>1. /\ at' \in [Request -> Stage] /\ status' \in [Request -> Status]
    BY <1>1, <1>3 DEF Typed, TypeOK, Stage, Status
  <2>2. forwarded' \in [Request -> SERVICE_MAP \cup {"none", "inquiries"}]
    BY <1>1, <1>2, <1>4 DEF Typed, TypeOK, Consistent
  <2>3. upstream' \in [Request -> SUBSET HeaderLine]
    BY <1>1, <1>4, <1>5 DEF Typed
  <2>4. fired' \in [Request -> SUBSET Event] /\ pending' \in [Request -> SUBSET Event]
    BY <1>1 DEF Typed, TypeOK, Event, Refusals
  <2>5. \A q \in Request : (published[q] \cup reported[q] \cup pending[q])' \subseteq fired'[q]
    BY <1>1 DEF Typed, TypeOK
  <2>6. TypeOK'
    BY <1>1, <1>3, <2>1, <2>2, <2>5 DEF Typed, TypeOK
  <2> QED BY <1>1, <1>3, <2>3, <2>4, <2>6 DEF Typed
<1>7. ASSUME NEW q \in Request, q # r PROVE Sound(q)'
  <2>1. Sound(q)
    BY DEF IInv
  <2>2. /\ at'[q] = at[q] /\ status'[q] = status[q] /\ forwarded'[q] = forwarded[q]
        /\ upstream'[q] = upstream[q] /\ fired'[q] = fired[q]
    BY <1>1, <1>3, <1>4, <1>7 DEF Typed, TypeOK
  <2> QED BY <1>3, <2>1, <2>2, Kept
<1>8. Passed(r)' /\ OwnToken(r)' /\ Undecided(r)'
  BY <1>1, <1>3 DEF Typed, TypeOK, Passed, OwnToken, Undecided
<1>9. Authorized(r)'
  <2>1. CASE /\ Target(c) # "itself" /\ forwarded' = [forwarded EXCEPT ![r] = Target(c)]
             /\ upstream' = [upstream EXCEPT ![r] = UpstreamHeaders(r)]
    <3>1. Target(c) \in SERVICE_MAP /\ IF Under(c) THEN Asked(c) ELSE Agreed(c)
      BY <1>2, <2>1 DEF Consistent
    <3>2. user[r]
      BY <1>1, <3>1 DEF Passed, Asked, Agreed
    <3>3. IF Under(c) THEN Consented(r)
          ELSE /\ Target(c) \in HPC_COMPUTE_SERVICES => compute[r]
               /\ \/ permission[r] = Requires(Target(c))
                  \/ c.path = <<"v1", "usage">> /\ permission[r] # "no"
                  \/ c.path = <<"auth", "verify">> /\ c.method # "GET"
      <4>1. CASE Under(c)
        BY <1>1, <3>1, <3>2, <4>1 DEF Passed, Asked, Consented, Requires
      <4>2. CASE ~Under(c)
        BY <1>1, <3>1, <4>2, Required DEF Passed, Agreed
      <4> QED BY <4>1, <4>2
    <3>4. token[r] = TokenOf(bearer[r])
      BY <1>1, <3>2 DEF OwnToken
    <3>5. ASSUME NEW h \in UpstreamHeaders(r), h[1] \in Reserved
          PROVE  h[2] = (IF h[1] # "authorization" THEN "gateway"
                         ELSE IF bearer[r] = "api_key" THEN "minted" ELSE "jwt")
      <4>1. CASE h \in {<<x, "client">> : x \in sent[r] \ Reserved}
        BY <3>5, <4>1
      <4>2. CASE h \in {<<x, "gateway">> : x \in GatewayHeaders}
        BY <4>2 DEF GatewayHeaders
      <4>3. CASE h = <<"authorization", token[r]>>
        BY <3>4, <4>3 DEF TokenOf
      <4> QED BY <4>1, <4>2, <4>3 DEF UpstreamHeaders
    <3>6. forwarded'[r] = Target(c) /\ upstream'[r] = UpstreamHeaders(r)
      BY <1>1, <2>1 DEF Typed, TypeOK
    <3>7. Target(c) # "inquiries"
      BY <3>1 DEF SERVICE_MAP
    <3>8. Consented(r)' = Consented(r)
      BY <1>3 DEF Consented
    <3> QED BY <1>3, <3>2, <3>3, <3>5, <3>6, <3>7, <3>8 DEF Authorized
  <2>2. CASE Route(c) = "inquiry" /\ forwarded' = [forwarded EXCEPT ![r] = "inquiries"]
    <3>1. IF Under(c) THEN Consented(r) ELSE IsPublic(c)
      <4>1. CASE Under(c)
        <5>1. Asked(c)
          BY <1>1, <4>1, UnderRoot
        <5> QED BY <1>1, <4>1, <5>1 DEF Passed, Asked, Consented, Requires
      <4>2. CASE ~Under(c)
        BY <2>2, <4>2 DEF Route, Routed, Match
      <4> QED BY <4>1, <4>2
    <3>2. forwarded'[r] = "inquiries"
      BY <1>1, <2>2 DEF Typed, TypeOK
    <3>3. Consented(r)' = Consented(r)
      BY <1>3 DEF Consented
    <3> QED BY <1>3, <3>1, <3>2, <3>3 DEF Authorized, SERVICE_MAP
  <2> QED BY <1>4, <2>1, <2>2
<1>10. Truthful(r)'
  <2>1. fired'[r] \cap Refusals = {}
    BY <1>1 DEF Typed, Undecided, Refusals
  <2>2. \/ status'[r] = "reply" /\ "request" \in fired'[r]
        \/ status'[r] = "500"
    BY <1>1, <1>3 DEF Typed, TypeOK
  <2> QED BY <2>1, <2>2 DEF Truthful
<1> QED BY <1>6, <1>7, <1>8, <1>9, <1>10 DEF IInv, Sound

(* A task publishes or reports an event that was fired. *)
LEMMA EmitStep ==
    ASSUME IInv, NEW r \in Request, Publish(r)
    PROVE  IInv'
<1> USE DEF Publish, Emit, EmitFails, input, gates, relay, trail
<1>1. Typed
  BY DEF IInv
<1>2. Typed'
  <2>1. /\ pending' \in [Request -> SUBSET Event] /\ published' \in [Request -> SUBSET Event]
        /\ reported' \in [Request -> SUBSET Event]
    BY <1>1 DEF Typed
  <2>2. \A q \in Request : (published[q] \cup reported[q] \cup pending[q])' \subseteq fired'[q]
    BY <1>1 DEF Typed, TypeOK
  <2>3. TypeOK'
    BY <1>1, <2>2 DEF Typed, TypeOK
  <2> QED BY <1>1, <2>1, <2>3 DEF Typed
<1>3. ASSUME NEW q \in Request PROVE Sound(q)'
  <2>1. Sound(q)
    BY DEF IInv
  <2> QED BY <2>1, Kept
<1> QED BY <1>2, <1>3 DEF IInv

(* The process stops: who has no answer gets none, and has gone nowhere. *)
LEMMA StopStep ==
    ASSUME IInv, Stop
    PROVE  IInv'
<1> USE DEF Stop, gates, relay, trail
<1>1. Typed
  BY DEF IInv
<1>2. Typed'
  <2>1. at' \in [Request -> Stage]
    BY DEF Stage
  <2>2. \A q \in Request : (published[q] \cup reported[q] \cup pending[q])' \subseteq fired'[q]
    BY <1>1 DEF Typed, TypeOK
  <2>3. TypeOK'
    BY <1>1, <2>1, <2>2 DEF Typed, TypeOK
  <2> QED BY <1>1, <2>3 DEF Typed
<1>3. ASSUME NEW q \in Request PROVE Sound(q)'
  <2>1. Passed(q) /\ OwnToken(q) /\ Undecided(q) /\ Authorized(q) /\ Truthful(q)
    BY DEF IInv, Sound
  <2>2. at'[q] = IF at[q] = "answered" THEN "answered" ELSE "dead"
    OBVIOUS
  <2>3. Passed(q)' /\ OwnToken(q)' /\ Undecided(q)'
    BY <2>1, <2>2 DEF Passed, OwnToken, Undecided
  <2>4. Authorized(q)' /\ Truthful(q)'
    BY <2>1 DEF Authorized, Consented, Truthful
  <2> QED BY <2>3, <2>4 DEF Sound
<1> QED BY <1>2, <1>3 DEF IInv

----------------------------------------------------------------------------
(* Theorems *)

(* Every request satisfies the inductive invariant, however requests,      *)
(* publishing tasks and a stop of the process interleave.                  *)
THEOREM Invariance == Spec => []IInv
<1>1. Init => IInv
  <2> SUFFICES ASSUME Init PROVE IInv
    OBVIOUS
  <2> USE DEF Init
  <2>1. TypeOK
    BY DEF TypeOK, Stage, Status
  <2>2. Typed
    BY <2>1 DEF Typed, Permission
  <2>3. ASSUME NEW q \in Request PROVE Sound(q)
    <3>1. /\ at[q] = "auth" /\ status[q] = "none" /\ forwarded[q] = "none"
          /\ fired[q] = {} /\ ~user[q]
      OBVIOUS
    <3>2. Passed(q) /\ OwnToken(q) /\ Undecided(q)
      BY <3>1 DEF Passed, OwnToken, Undecided
    <3>3. Authorized(q) /\ Truthful(q)
      BY <3>1 DEF Authorized, Truthful, SERVICE_MAP
    <3> QED BY <3>2, <3>3 DEF Sound
  <2> QED BY <2>2, <2>3 DEF IInv
<1>2. IInv /\ [Next]_vars => IInv'
  <2> SUFFICES ASSUME IInv, [Next]_vars PROVE IInv'
    OBVIOUS
  <2>1. ASSUME NEW r \in Request, Advance(r) PROVE IInv'
    BY <2>1, AuthStep, PolicyStep, HPCStep, ReplyStep, ForwardStep DEF Advance
  <2>2. ASSUME NEW r \in Request, Publish(r) PROVE IInv'
    BY <2>2, EmitStep
  <2>3. CASE Stop
    BY <2>3, StopStep
  <2>4. CASE UNCHANGED vars
    <3> USE <2>4 DEF vars, input, gates, relay, trail
    <3>1. Typed'
      BY DEF IInv, Typed, TypeOK
    <3>2. ASSUME NEW q \in Request PROVE Sound(q)'
      <4>1. Sound(q)
        BY DEF IInv
      <4> QED BY <4>1, Kept
    <3> QED BY <3>1, <3>2 DEF IInv
  <2> QED BY <2>1, <2>2, <2>3, <2>4 DEF Next
<1> QED BY <1>1, <1>2, PTL DEF Spec

(* Requests stay at known points, no engine is asked more than twice, and  *)
(* nothing is published that was not fired.                                *)
THEOREM TypeCorrect == Spec => []TypeOK
<1>1. IInv => TypeOK
  BY DEF IInv, Typed
<1> QED BY <1>1, Invariance, PTL

(* Whatever its path, method and headers, a request is forwarded under the *)
(* gateway's own identity headers and only as an authenticated user; past  *)
(* the gates its service needs when its path is not under root_path, but   *)
(* for the two paths the property names; and with the policy engine's      *)
(* consent to no permission in particular when it is.                      *)
THEOREM ForwardedAsAuthorized == Spec => []ForwardAuthorized
<1>1. IInv => ForwardAuthorized
  BY DEF IInv, Sound, ForwardAuthorized
<1> QED BY <1>1, Invariance, PTL

(* A gate's refusal and a handler's answer are on the audit trail, and a   *)
(* refused request went nowhere.                                           *)
THEOREM TrailTruthful == Spec => []TrailComplete
<1>1. IInv => TrailComplete
  BY DEF IInv, Sound, TrailComplete
<1> QED BY <1>1, Invariance, PTL
=============================================================================
