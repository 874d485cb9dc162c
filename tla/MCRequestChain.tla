--------------------------- MODULE MCRequestChain ---------------------------
(* TLC instance of RequestChain: one call of every kind the routing table, *)
(* root_path and the skip lists tell apart. Requests share no state.       *)
EXTENDS RequestChain, TLC

MCCall ==
    {[path |-> p, method |-> m] :
        p \in {<<>>, <<"health">>, <<"docs">>, <<"tes">>, <<"tes", "runs">>,
               <<"rag", "query">>, <<"billing", "plans">>, <<"nosuch", "x">>,
               <<"auth", "verify">>, <<"auth", "login">>,
               <<"v1", "literature", "answers">>, <<"v1", "literature", "studies">>,
               <<"v1", "usage">>, <<"v1", "models">>, <<"v1", "provider-keys">>,
               <<"v1", "provider-keys", "claude">>,
               <<"api", "v1", "research-inquiries">>, <<"mcp", "x">>, <<"mcpx", "x">>,
               <<"_svc", "gateway">>, <<"_svc", "gateway", "health">>,
               <<"_svc", "gateway", "tes", "runs">>, <<"_svc", "gateway", "auth", "verify">>,
               <<"_svc", "gateway", "v1", "literature", "answers">>,
               <<"_svc", "gateway", "v1", "usage">>, <<"_svc", "gateway", "mcp", "x">>,
               <<"_svc", "gateway", "api", "v1", "research-inquiries">>,
               <<"_svc", "gateway", "_svc", "gateway", "tes", "runs">>, <<"_svc", "tes">>},
        m \in {"GET", "POST", "PUT", "OPTIONS"}}
=============================================================================
