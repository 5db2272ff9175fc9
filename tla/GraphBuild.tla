----------------------------- MODULE GraphBuild -----------------------------
(***************************************************************************)
(* How a graph comes to be: what build_multi_agent_graph() and the first   *)
(* import of multi_agent_graph.py share between the threads of a process.  *)
(*                                                                         *)
(* The import makes one LLM client per agent, each from the routing file   *)
(* as it is at that moment.  Every build then takes the checkpointer of    *)
(* AUTOSENTINEL_CHECKPOINTER_DSN from a cache, or opens a PostgreSQL       *)
(* connection and puts it there; nothing makes looking and putting atomic. *)
(* The connections are closed by an exit handler.                          *)
(*                                                                         *)
(* The threads are the gateway's event loop, where the resume endpoint     *)
(* builds its graphs, and the thread the worker runs pipelines in.  A      *)
(* process that is killed leaves nothing behind: its next start is Init.   *)
(***************************************************************************)
EXTENDS Integers, FiniteSets

CONSTANTS
    Threads, NoThread,
    NumAgents,      \* agents with a client, numbered in the order they are made
    Configs,        \* contents of the routing file
    NoFile,         \* there is none, or it cannot be parsed
    KeysSet,        \* the API key variables that are in the environment
    MaxBuilds,      \* bound: graphs built
    MaxConnections, \* bound: connections opened
    MaxEdits        \* bound: edits of the routing file

Agents      == 1..NumAgents
Connections == 1..MaxConnections
Known       == {"ark", "glm"}   \* endpoint aliases with a concrete client

\* A routing file maps agents to models, and endpoint aliases to the models they serve,
\* whether one of these is listed twice, and the name of their key.
ASSUME ThreadsAssumption == NoThread \notin Threads /\ Threads # {}
ASSUME ConfigsAssumption == NoFile \notin Configs
ASSUME BuildBounds       == /\ NumAgents \in Nat \ {0} /\ MaxBuilds \in Nat
                            /\ MaxConnections \in Nat /\ MaxEdits \in Nat

VARIABLES
    routing,    \* the routing file
    lock,       \* who imports the module
    made,       \* the agents whose clients this import has made
    client,     \* the endpoint each agent's client is for; "none": no client
    loaded,     \* the module is imported
    pc,         \* what each thread does
    saver,      \* the connection of the saver a thread has in hand; 0: none
    conn,       \* the state of each connection
    ready,      \* connections whose saver was set up
    registered, \* _open_checkpointer_cms
    cached,     \* _postgres_savers[dsn]; 0: not there
    phase,      \* the process runs, its exit handler runs, it is gone
    builds, edits,
    \* history
    opener,     \* who opened each connection
    versions    \* what the routing file has been

import   == <<lock, made, client, loaded>>
cache    == <<registered, cached>>
pool     == <<conn, ready, opener>>
file     == <<routing, edits, versions>>
vars     == <<file, import, pc, saver, pool, cache, phase, builds>>

TypeOK ==
    /\ routing \in Configs \cup {NoFile} /\ versions \subseteq Configs \cup {NoFile}
    /\ lock \in Threads \cup {NoThread}
    /\ made \in 0..NumAgents
    /\ client \in [Agents -> Known \cup {"none"}]
    /\ loaded \in BOOLEAN
    /\ pc \in [Threads -> {"idle", "importing", "resolving", "connecting", "setup",
                           "unwinding", "register", "store", "using"}]
    /\ saver \in [Threads -> {0} \cup Connections]
    /\ conn \in [Connections -> {"none", "open", "dropped", "closed"}]
    /\ opener \in [Connections -> Threads \cup {NoThread}]
    /\ ready \subseteq Connections
    /\ registered \subseteq Connections
    /\ cached \in {0} \cup Connections
    /\ phase \in {"up", "closing", "down"}
    /\ builds \in 0..MaxBuilds /\ edits \in 0..MaxEdits

Init ==
    /\ routing \in Configs \cup {NoFile} /\ versions = {routing}
    /\ lock = NoThread /\ made = 0
    /\ client = [a \in Agents |-> "none"]
    /\ loaded = FALSE
    /\ pc = [t \in Threads |-> "idle"]
    /\ saver = [t \in Threads |-> 0]
    /\ conn = [c \in Connections |-> "none"]
    /\ opener = [c \in Connections |-> NoThread]
    /\ ready = {} /\ registered = {} /\ cached = 0
    /\ phase = "up"
    /\ builds = 0 /\ edits = 0

Goto(t, step) == pc' = [pc EXCEPT ![t] = step]

-----------------------------------------------------------------------------
(* Importing the module, under Python's import lock.                       *)

\* A thread that is to run or resume an incident imports the module.
Start(t) ==
    /\ phase = "up" /\ pc[t] = "idle"
    /\ builds < MaxBuilds
    /\ builds' = builds + 1
    /\ Goto(t, "importing")
    /\ UNCHANGED <<file, import, saver, pool, cache, phase>>

\* It is imported already, by this thread or by the one it waited for.
Imported(t) ==
    /\ pc[t] = "importing" /\ loaded
    /\ Goto(t, "resolving")
    /\ UNCHANGED <<file, import, saver, pool, cache, phase, builds>>

\* Or it is this thread that executes it.
Import(t) ==
    /\ pc[t] = "importing" /\ ~loaded
    /\ lock = NoThread
    /\ lock' = t
    /\ UNCHANGED <<file, made, client, loaded, pc, saver, pool, cache, phase, builds>>

\* Mutated form of Valid: only that every agent's model is declared is checked.
ValidUnlessMissing(c) ==
    \A a \in DOMAIN c.agents : \E e \in DOMAIN c.endpoints :
        c.agents[a] \in c.endpoints[e].models

\* No model is declared twice, under one endpoint or two, and every agent's model is
\* declared.
Valid(c) ==
    /\ \A e \in DOMAIN c.endpoints : ~c.endpoints[e].repeats
    /\ \A e, f \in DOMAIN c.endpoints :
           e # f => c.endpoints[e].models \cap c.endpoints[f].models = {}
    /\ \A a \in DOMAIN c.agents : \E e \in DOMAIN c.endpoints :
           c.agents[a] \in c.endpoints[e].models

Endpoints(c) == IF c = NoFile THEN {} ELSE DOMAIN c.endpoints

\* Mutated form of ClientFor: an alias without a concrete client is let through.
ClientForAnyAlias(c, a, e) ==
    /\ e \in Endpoints(c) /\ Valid(c)
    /\ a \in DOMAIN c.agents /\ c.agents[a] \in c.endpoints[e].models
    /\ c.endpoints[e].key \in KeysSet

\* build_client_for_agent() finds in c that the client of agent a is for endpoint e.
ClientFor(c, a, e) ==
    /\ e \in Endpoints(c) /\ Valid(c)
    /\ a \in DOMAIN c.agents /\ c.agents[a] \in c.endpoints[e].models
    /\ c.endpoints[e].key \in KeysSet
    /\ e \in Known

\* The endpoints the next agent's client can be for: one, or none.
NextClient == {e \in Endpoints(routing) : ClientFor(routing, made + 1, e)}

\* The file is read, and the next agent's client is made; the last one completes
\* the module.
MakeClient(t) ==
    /\ lock = t
    /\ \E e \in NextClient : client' = [client EXCEPT ![made + 1] = e]
    /\ made' = made + 1
    /\ loaded' = (made + 1 = NumAgents)
    /\ lock' = IF made + 1 = NumAgents THEN NoThread ELSE t
    /\ UNCHANGED <<file, pc, saver, pool, cache, phase, builds>>

\* Mutated form of MakeClientFails: the lock is left behind.
MakeClientFailsLocked(t) ==
    /\ lock = t
    /\ NextClient = {}
    /\ Goto(t, "idle")
    /\ UNCHANGED <<file, import, saver, pool, cache, phase, builds>>

\* ConfigurationError fails the import.  The module and the clients it has so far
\* are thrown away, and the next build executes it from the top.
MakeClientFails(t) ==
    /\ lock = t
    /\ NextClient = {}
    /\ lock' = NoThread /\ made' = 0
    /\ client' = [a \in Agents |-> "none"]
    /\ Goto(t, "idle")
    /\ UNCHANGED <<file, loaded, saver, pool, cache, phase, builds>>

-----------------------------------------------------------------------------
(* _resolve_checkpointer(), with a DSN.                                    *)

\* Mutated form of Lookup: what is cached is not looked for.
LookupNever(t) ==
    /\ pc[t] = "resolving"
    /\ Goto(t, "connecting")
    /\ UNCHANGED <<file, import, saver, pool, cache, phase, builds>>

\* The cached saver, whatever became of its connection.
Lookup(t) ==
    /\ pc[t] = "resolving"
    /\ \/ cached # 0 /\ saver' = [saver EXCEPT ![t] = cached] /\ Goto(t, "using")
       \/ cached = 0 /\ Goto(t, "connecting") /\ UNCHANGED saver
    /\ UNCHANGED <<file, import, pool, cache, phase, builds>>

\* cm.__enter__(): a new connection, or an error.
Connect(t) ==
    /\ pc[t] = "connecting"
    /\ \/ \E c \in Connections :
              /\ conn[c] = "none"
              /\ conn' = [conn EXCEPT ![c] = "open"]
              /\ opener' = [opener EXCEPT ![c] = t]
              /\ saver' = [saver EXCEPT ![t] = c]
              /\ Goto(t, "setup")
       \/ Goto(t, "idle") /\ UNCHANGED <<conn, opener, saver>>
    /\ UNCHANGED <<file, import, ready, cache, phase, builds>>

\* Mutated form of Setup: a saver whose setup failed is kept.
SetupUnchecked(t) ==
    /\ pc[t] = "setup"
    /\ \/ conn[saver[t]] = "open" /\ ready' = ready \cup {saver[t]}
       \/ UNCHANGED ready
    /\ Goto(t, "register")
    /\ UNCHANGED <<file, import, saver, conn, opener, cache, phase, builds>>

\* saver.setup() creates the tables, or raises.
Setup(t) ==
    /\ pc[t] = "setup"
    /\ \/ /\ conn[saver[t]] = "open"
          /\ ready' = ready \cup {saver[t]}
          /\ Goto(t, "register")
       \/ Goto(t, "unwinding") /\ UNCHANGED ready
    /\ UNCHANGED <<file, import, saver, conn, opener, cache, phase, builds>>

\* When the exception has been handled, its traceback is freed, and with it the frame that
\* holds the context manager; that closes the connection.
Unwind(t) ==
    /\ pc[t] = "unwinding"
    /\ conn' = [conn EXCEPT ![saver[t]] = "closed"]
    /\ saver' = [saver EXCEPT ![t] = 0]
    /\ Goto(t, "idle")
    /\ UNCHANGED <<file, import, ready, opener, cache, phase, builds>>

\* Mutated form of Register: the context manager is not kept.
RegisterNot(t) ==
    /\ pc[t] = "register"
    /\ Goto(t, "store")
    /\ UNCHANGED <<file, import, saver, pool, cache, phase, builds>>

\* _open_checkpointer_cms.append(cm).
Register(t) ==
    /\ pc[t] = "register"
    /\ registered' = registered \cup {saver[t]}
    /\ Goto(t, "store")
    /\ UNCHANGED <<file, import, saver, pool, cached, phase, builds>>

\* _postgres_savers[dsn] = saver: another thread's may have been there.
Store(t) ==
    /\ pc[t] = "store"
    /\ cached' = saver[t]
    /\ Goto(t, "using")
    /\ UNCHANGED <<file, import, saver, pool, registered, phase, builds>>

\* The invocation of the graph that was built is over.
Done(t) ==
    /\ pc[t] = "using"
    /\ saver' = [saver EXCEPT ![t] = 0]
    /\ Goto(t, "idle")
    /\ UNCHANGED <<file, import, pool, cache, phase, builds>>

-----------------------------------------------------------------------------
(* The exit handler, and what happens around the process.                  *)

\* The interpreter waits for its threads before it runs the exit handlers.
Exit ==
    /\ phase = "up" /\ \A t \in Threads : pc[t] = "idle"
    /\ phase' = "closing"
    /\ UNCHANGED <<file, import, pc, saver, pool, cache, builds>>

\* _close_open_checkpointers(): one connection after another, until none is left.
\* An error from a dropped one is swallowed.
Close ==
    /\ phase = "closing"
    /\ \E c \in registered :
           /\ registered' = registered \ {c}
           /\ conn' = [conn EXCEPT ![c] = IF @ = "open" THEN "closed" ELSE @]
    /\ UNCHANGED <<file, import, pc, saver, ready, opener, cached, phase, builds>>

Closed ==
    /\ phase = "closing" /\ registered = {}
    /\ cached' = 0
    /\ phase' = "down"
    /\ UNCHANGED <<file, import, pc, saver, pool, registered, builds>>

\* PostgreSQL, or the network, drops a connection.  Nobody is told.
Drop ==
    /\ \E c \in Connections : conn[c] = "open" /\ conn' = [conn EXCEPT ![c] = "dropped"]
    /\ UNCHANGED <<file, import, pc, saver, ready, opener, cache, phase, builds>>

\* "Provider switching is a yaml edit", at any time.
Edit ==
    /\ edits < MaxEdits
    /\ edits' = edits + 1
    /\ routing' \in Configs \cup {NoFile}
    /\ versions' = versions \cup {routing'}
    /\ UNCHANGED <<import, pc, saver, pool, cache, phase, builds>>

Build(t) ==
    \/ Imported(t) \/ Import(t) \/ MakeClient(t) \/ MakeClientFails(t)
    \/ Lookup(t) \/ Connect(t) \/ Setup(t) \/ Unwind(t) \/ Register(t) \/ Store(t)
    \/ Done(t)

Next ==
    \/ \E t \in Threads : Start(t) \/ Build(t)
    \/ Exit \/ Close \/ Closed
    \/ Drop \/ Edit

Spec == Init /\ [][Next]_vars

\* Threads are scheduled, connecting and invoking end; nobody has to start a build,
\* end the process, drop a connection or edit the file.
FairSpec == Spec /\ (\A t \in Threads : WF_vars(Build(t))) /\ WF_vars(Close \/ Closed)

-----------------------------------------------------------------------------
(* Properties.                                                             *)

\* A connection that is open is in the hands of the thread that opened it, or will
\* be closed by the exit handler: no failed setup, and no race for the cache, leaks
\* one.  When the process is gone none is left.
NothingLeaks ==
    /\ \A c \in Connections : conn[c] = "open" =>
           c \in registered \/ \E t \in Threads : saver[t] = c /\ opener[c] = t
    /\ phase = "down" => \A c \in Connections : conn[c] # "open"

\* A graph that is invoked has a saver whose tables exist and whose connection
\* nobody in this process has closed, also when another thread's saver replaced it
\* in the cache; and so has the next one that is built from the cache.
SaversAreUsable ==
    \A c \in {cached} \cup {saver[t] : t \in {u \in Threads : pc[u] = "using"}} :
        c # 0 /\ phase = "up" => c \in ready /\ conn[c] \in {"open", "dropped"}

\* multi_agent_graph.py: the cache is there because without it each build "would leak
\* a PG connection".  However many graphs it builds, a thread opens at most one
\* connection that stays.
OneConnectionPerThread ==
    \A c, d \in registered : opener[c] = opener[d] => c = d

\* The module is complete once it is imported, whatever imports failed before: each
\* agent has a client, of the one endpoint that serves its model in some version of
\* the file, with a key.
ClientsMatchRouting ==
    loaded => \A a \in Agents : \E c \in versions :
        /\ client[a] \in Endpoints(c) /\ a \in DOMAIN c.agents
        /\ {e \in Endpoints(c) : c.agents[a] \in c.endpoints[e].models} = {client[a]}
        /\ c.endpoints[client[a]].key \in KeysSet

\* Every build ends, with a graph or an error: no import waits for ever for one that
\* failed; and an exit that began closes everything.
BuildsEnd ==
    /\ \A t \in Threads : pc[t] # "idle" ~> pc[t] = "idle"
    /\ phase = "closing" ~> phase = "down"
=============================================================================
