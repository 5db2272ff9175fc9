---------------------------- MODULE MCGraphBuild ----------------------------
(* Model-checking instance of GraphBuild: two agents, and one routing file for *)
(* each way a file can be right or wrong.                                      *)
EXTENDS GraphBuild

Endpoint(models) == [models |-> models, key |-> "ARK_API_KEY", repeats |-> FALSE]

\* The two agents' models at two providers; the same the other way round.
Good    == [agents    |-> <<"doubao", "glm-4.7">>,
            endpoints |-> [ark |-> Endpoint({"doubao"}), glm |-> Endpoint({"glm-4.7"})]]
Swapped == [Good EXCEPT !.agents = <<"glm-4.7", "doubao">>]

\* A model that is declared twice, under two endpoints or one, or not at all; an agent that
\* is missing; an alias nobody has a client for; and a key that is not in the environment.
Duplicate    == [Good EXCEPT !.endpoints.glm.models = {"doubao", "glm-4.7"}]
Repeated     == [Good EXCEPT !.endpoints.ark.repeats = TRUE]
Undeclared   == [Good EXCEPT !.agents[2] = "gpt"]
MissingAgent == [Good EXCEPT !.agents = <<"doubao">>]
UnknownAlias == [Good EXCEPT !.endpoints = [ark |-> Endpoint({"doubao"}),
                                            zhipu |-> Endpoint({"glm-4.7"})]]
NoKey        == [Good EXCEPT !.endpoints.glm.key = "GLM_API_KEY"]

MCConfigs == {Good, Swapped, Duplicate, Repeated, Undeclared, MissingAgent, UnknownAlias, NoKey}
=============================================================================
