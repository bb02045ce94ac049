---------------------------- MODULE MCDeployment ----------------------------
(* Two files and everything up to two changes away from them: one that may  *)
(* restart real workers, one for the demonstration.  Where the worker is    *)
(* given another file than the API, its restarts are unguarded or others.   *)
EXTENDS Deployment

Real ==
    [Default EXCEPT !.explicit = TRUE, !.mode = "http", !.vmode = "prometheus",
        !.attempts = 2, !.required = 2,
        !.given = TextField \ {"reranker.base_url", "reranker.api_key", "reranker.model"},
        !.targets = [csv |-> TRUE, items |-> <<"w1", "">>],
        !.webhook = "t1", !.read = "t2", !.admin = "t3"]

Demo ==
    [Default EXCEPT !.explicit = TRUE, !.required = 1,
        !.given = @ \cup {"embedding.base_url", "qdrant.url", "rabbitmq.url",
                          "llm.base_url", "llm.model"}]

(* Changes of a file, a key it no longer writes (attempts and thresholds    *)
(* of 3 and the like are the defaults) and a wrong environment included.    *)
OneAway(f) ==
    {[f EXCEPT !.explicit = FALSE, !.mode = "mock"]}
    \cup {[f EXCEPT !.mode = m] : m \in {"mock", "http", "other", ""}}
    \cup {[f EXCEPT !.vmode = m] : m \in {"mock", "prometheus", "other", ""}}
    \cup {[f EXCEPT !.attempts = n] : n \in {0, 1, 3, 4}}
    \cup {[f EXCEPT !.required = n] : n \in {0, 1, 3}}
    \cup {[f EXCEPT !.interval = -1], [f EXCEPT !.topK = 0],
          [f EXCEPT !.candidateK = 0], [f EXCEPT !.store = "memory"],
          [f EXCEPT !.actor = ""], [f EXCEPT !.approval = FALSE]}
    \cup {[f EXCEPT !.reranker = r] : r \in {"tei", "qwen", "other"}}
    \cup {[f EXCEPT !.given = @ \ {g}] : g \in f.given}
    \cup {[f EXCEPT !.given = @ \cup {g}] : g \in TextField}
    \cup {[f EXCEPT !.targets = [csv |-> b, items |-> i]] :
             b \in BOOLEAN, i \in {<< >>, <<"">>, <<"w2", "w1">>}}
    \cup {[f EXCEPT !.webhook = t] : t \in {"", "t1"}}
    \cup {[f EXCEPT !.read = t] : t \in {"", "t3"}}
    \cup {[f EXCEPT !.admin = t] : t \in {"", " ", "t3"}}
    \cup {[f EXCEPT !.webhook = "", !.read = "", !.admin = ""]}
    \cup {[f EXCEPT !.port = v] : v \in {"bad", "ok"}}

Near(f) == UNION {OneAway(g) : g \in OneAway(f)}

SmallDeployments ==
    {[api |-> f, worker |-> f] : f \in Near(Real) \cup Near(Demo)}
    \cup {[api |-> f, worker |-> g] : f \in {Real} \cup OneAway(Real),
             g \in {[Real EXCEPT !.mode = "mock"], [Real EXCEPT !.approval = FALSE],
                    [Real EXCEPT !.targets = [csv |-> FALSE, items |-> <<"w2">>]]}}

Figures == {<<Loaded(d.api).attempts, Loaded(d.api).required>> : d \in SmallDeployments}

(* -0.5, 0.5 and 1 consumers.                                               *)
AroundOne == {-1, 1, 2}
=============================================================================
