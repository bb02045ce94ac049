------------------------------ MODULE Settings ------------------------------
(***************************************************************************)
(* Package config: what a process knows after Load.  A configuration file  *)
(* is the record that decoding it over Default gives, environment vari-    *)
(* ables expanded: keys it does not write keep their default, and          *)
(* "explicit" says whether it writes execution.mode.  Of the texts that    *)
(* are only tested for being empty, "given" is the set of those that are   *)
(* not; a target or a token is "" when it is blank.                        *)
(***************************************************************************)
EXTENDS Integers, Sequences

TextField == {"embedding.base_url", "embedding.model", "qdrant.url",
              "postgres.dsn", "rabbitmq.url", "prometheus.url",
              "llm.base_url", "llm.model", "execution.restart_url",
              "reranker.base_url", "reranker.api_key", "reranker.model"}

(* config.Default; port is the environment's SERVER_PORT.                  *)
Default ==
    [explicit |-> FALSE, mode |-> "mock", vmode |-> "mock",
     attempts |-> 3, required |-> 3, interval |-> 10,
     topK |-> 8, candidateK |-> 20, store |-> "qdrant", reranker |-> "off",
     given |-> {"embedding.model"}, targets |-> [csv |-> TRUE, items |-> << >>],
     webhook |-> "", read |-> "", admin |-> "", actor |-> "gooncall-admin",
     approval |-> TRUE, port |-> "unset"]

(* CSVList.UnmarshalYAML: the comma-separated form, the only one a ${VAR}  *)
(* can give, drops blank items; a YAML list is taken as it is.             *)
Targets(list) ==
    IF list.csv THEN SelectSeq(list.items, LAMBDA t : t # "") ELSE list.items

(* An empty verification mode means "mock".                                *)
Loaded(file) ==
    [file EXCEPT !.vmode = IF @ = "" THEN "mock" ELSE @, !.targets = Targets(@)]

-----------------------------------------------------------------------------
(* Config.Validate.                                                        *)

ModeKnown(s) == s.mode \in {"mock", "http"}

VerificationKnown(s) ==
    \/ s.vmode = "mock"
    \/ s.vmode = "prometheus" /\ "prometheus.url" \in s.given

FiguresSound(s) ==
    /\ s.attempts >= 1 /\ s.required >= 1
    /\ s.required <= s.attempts
    /\ s.interval >= 0

(* The same rules hold in newConfiguredReranker.                           *)
RerankerSound(s) ==
    s.reranker # "off" =>
        /\ "reranker.base_url" \in s.given
        /\ \/ s.reranker \in {"", "tei"}
           \/ s.reranker = "qwen" /\ {"reranker.api_key", "reranker.model"} \subseteq s.given

RetrievalSound(s) == s.topK >= 1 /\ s.candidateK >= 1 /\ RerankerSound(s)

(* Mutant: the shared database is not asked for.                           *)
RemediationWithoutDatabase(s) ==
    s.mode = "http" =>
        /\ s.targets # << >> /\ s.vmode = "prometheus"
        /\ "" \notin {s.webhook, s.read, s.admin}
        /\ {"execution.restart_url", "rabbitmq.url", "llm.base_url", "llm.model"}
             \subseteq s.given

(* What execution.mode=http requires.                                      *)
RemediationSound(s) ==
    s.mode = "http" =>
        /\ s.targets # << >>
        /\ s.vmode = "prometheus"
        /\ "" \notin {s.webhook, s.read, s.admin}
        /\ {"execution.restart_url", "postgres.dsn", "rabbitmq.url",
            "llm.base_url", "llm.model"} \subseteq s.given

Valid(s) ==
    /\ ModeKnown(s) /\ VerificationKnown(s) /\ FiguresSound(s)
    /\ RetrievalSound(s) /\ RemediationSound(s)

(* config.Load: the mode must be written out although it has a default,    *)
(* and SERVER_PORT, when set, must be a port.                              *)
ModeExplicit(file) == file.explicit /\ file.mode # ""

Loads(file) ==
    /\ ModeExplicit(file)
    /\ Loaded(file).port # "bad"
    /\ Valid(Loaded(file))
=============================================================================
