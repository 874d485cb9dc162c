------------------------- MODULE LiteratureContract -------------------------
(* The translation of a public /v1/literature request body into the body   *)
(* of RAG's /v1/query: build_rag_query and build_rag_search_query of       *)
(* src/app/services/literature_contract.py. Pure functions; a body is told *)
(* apart by what they test.                                                *)
EXTENDS Integers

CONSTANTS
    Nil,         \* an absent field
    NotAnObject  \* a JSON body that is no object

(* question: "" stands for missing, blank or not a string. model: Nil      *)
(* stands for absent, "" and "default". size is max_citations or           *)
(* max_results: Nil also stands for what is ignored (no number, a Boolean, *)
(* not positive, NaN), and Infinity is a number json.loads accepts.        *)
BYOK_MODELS == {"claude", "openai"}
RequestBody ==
    [question : {"", "asked"}, model : {Nil, "llama"} \cup BYOK_MODELS,
     own : BOOLEAN, stream : BOOLEAN, size : {Nil, "half", "ten", "infinity"}]

(* What a translation returns: a query, UnsupportedRequestError, or an     *)
(* exception nobody expects (int() of an infinite float).                  *)
Unsupported == [kind |-> "unsupported"]
Raises      == [kind |-> "raises"]

(* int(size): a fraction below one is cut to zero. *)
TopK(size) ==
    CASE size = "half" -> 0
      [] size = "ten"  -> 10
      [] OTHER         -> Nil

Query(model, mode, size) ==
    IF size = "infinity" THEN Raises
    ELSE [kind |-> "query", model |-> model, mode |-> mode, top_k |-> TopK(size)]

(* Mutant: a model without the caller's own key falls back to the default. *)
BuildRagQueryFallsBack(b) ==
    IF \/ b = NotAnObject
       \/ b.question = ""
       \/ b.model \notin {Nil} \cup BYOK_MODELS
       \/ b.own /\ b.model \notin BYOK_MODELS
       \/ b.stream
    THEN Unsupported
    ELSE Query(IF b.own THEN b.model ELSE Nil, "answer", b.size)

BuildRagQuery(b) ==
    IF \/ b = NotAnObject
       \/ b.question = ""
       \/ b.model \notin {Nil} \cup BYOK_MODELS
       \/ b.model \in BYOK_MODELS /\ ~b.own
       \/ b.own /\ b.model \notin BYOK_MODELS
       \/ b.stream
    THEN Unsupported
    ELSE Query(b.model, "answer", b.size)

(* Search is retrieval only: model, own key and stream are not looked at.  *)
BuildRagSearchQuery(b) ==
    IF b = NotAnObject \/ b.question = "" THEN Unsupported
    ELSE Query(Nil, "search", b.size)

(* build_public_answer and build_public_search, as far as the handler      *)
(* looks at the result: which token counts it will bill. tokens is what    *)
(* RAG reported.                                                           *)
PublicUsage(mode, tokens) == IF mode = "answer" THEN tokens ELSE {}
=============================================================================
