-------------------------- MODULE GraphBuildProofs --------------------------
(***************************************************************************)
(* Proofs about GraphBuild, for any threads, agents, routing files, builds *)
(* and connections: type correctness, that no connection leaks, that the   *)
(* savers in use and in the cache are usable, that a thread opens at most  *)
(* one connection that stays, and that the clients match the routing file. *)
(*                                                                         *)
(* The argument for the connections: an open one is registered, or in the  *)
(* hands of the thread that is setting it up; and a thread that is about   *)
(* to open one has none registered, because it would have found a saver in *)
(* the cache.                                                              *)
(***************************************************************************)
EXTENDS GraphBuild, TLAPS

-----------------------------------------------------------------------------
(* The inductive invariant.                                                *)

Opening == {"connecting", "setup", "unwinding", "register"}     \* not registered yet
Later   == {"resolving", "store", "using"} \cup Opening

\* The import: who has the lock executes the module, and when nobody does it is
\* complete or untouched.
ImportOK ==
    /\ lock # NoThread => pc[lock] = "importing" /\ ~loaded /\ made < NumAgents
    /\ lock = NoThread => made = IF loaded THEN NumAgents ELSE 0
    /\ \A t \in Threads : pc[t] \in Later => loaded

\* The client of agent a is of the one endpoint that serves the agent's model in
\* some version of the file.
Matches(a) ==
    \E c \in versions :
        /\ client[a] \in Endpoints(c) /\ a \in DOMAIN c.agents
        /\ {e \in Endpoints(c) : c.agents[a] \in c.endpoints[e].models} = {client[a]}
        /\ c.endpoints[client[a]].key \in KeysSet

ClientsOK == routing \in versions /\ \A a \in 1..made : Matches(a)

\* What a thread has in hand at each step.
InHand(t) ==
    /\ pc[t] \in {"idle", "importing", "resolving", "connecting"} => saver[t] = 0
    /\ pc[t] \in {"setup", "unwinding", "register", "store"} =>
           /\ saver[t] # 0 /\ opener[saver[t]] = t
           /\ conn[saver[t]] \in {"open", "dropped"}
    /\ pc[t] \in {"register", "store"} => saver[t] \in ready
    /\ pc[t] \in {"setup", "unwinding", "register"} => saver[t] \notin registered
    /\ pc[t] = "store" => saver[t] \in registered
    /\ pc[t] = "using" => saver[t] \in registered

\* A connection that is registered was set up and not closed, and one that is open
\* is registered or being set up.
ConnectionsOK ==
    /\ \A c \in registered : c \in ready /\ conn[c] \in {"open", "dropped"}
    /\ \A c \in Connections : conn[c] = "open" =>
           c \in registered \/ \E t \in Threads : pc[t] \in {"setup", "unwinding", "register"} /\ saver[t] = c
    /\ phase = "up" => cached = 0 \/ cached \in registered
    /\ phase # "up" => \A t \in Threads : pc[t] = "idle"
    /\ phase = "down" => registered = {}

\* A thread that has one registered has not begun to open another, and finds one
\* in the cache as soon as it has put its own there.
OpenersOK ==
    /\ \A c \in registered :
           /\ opener[c] \in Threads /\ pc[opener[c]] \notin Opening
           /\ phase = "up" => cached # 0 \/ pc[opener[c]] = "store"
    /\ OneConnectionPerThread

IInv ==
    /\ TypeOK /\ ImportOK /\ ClientsOK
    /\ \A t \in Threads : InHand(t)
    /\ ConnectionsOK /\ OpenersOK

-----------------------------------------------------------------------------
(* Type correctness.                                                       *)

LEMMA TypeStep == IInv /\ [Next]_vars => TypeOK'
<1> SUFFICES ASSUME IInv, [Next]_vars PROVE TypeOK'
  OBVIOUS
<1> USE BuildBounds, ThreadsAssumption
<1>1. TypeOK /\ ImportOK /\ \A t \in Threads : InHand(t)
  BY DEF IInv
<1>2. ASSUME NEW t \in Threads, Start(t) PROVE TypeOK'
  BY <1>1, <1>2 DEF TypeOK, Start, Goto, file, import, pool, cache
<1>3. ASSUME NEW t \in Threads, Imported(t) PROVE TypeOK'
  BY <1>1, <1>3 DEF TypeOK, Imported, Goto, file, import, pool, cache
<1>4. ASSUME NEW t \in Threads, Import(t) PROVE TypeOK'
  BY <1>1, <1>4 DEF TypeOK, Import, file, pool, cache
<1>5. ASSUME NEW t \in Threads, MakeClient(t) PROVE TypeOK'
  <2>1. PICK e \in NextClient : client' = [client EXCEPT ![made + 1] = e]
    BY <1>5 DEF MakeClient
  <2>2. e \in Known
    BY DEF NextClient, ClientFor
  <2>3. made < NumAgents
    BY <1>1, <1>5 DEF MakeClient, ImportOK
  <2>. QED BY <1>1, <1>5, <2>1, <2>2, <2>3 DEF TypeOK, MakeClient, file, pool, cache, Agents
<1>6. ASSUME NEW t \in Threads, MakeClientFails(t) PROVE TypeOK'
  BY <1>1, <1>6 DEF TypeOK, MakeClientFails, Goto, file, pool, cache
<1>7. ASSUME NEW t \in Threads, Lookup(t) PROVE TypeOK'
  BY <1>1, <1>7 DEF TypeOK, Lookup, Goto, file, import, pool, cache
<1>8. ASSUME NEW t \in Threads, Connect(t) PROVE TypeOK'
  <2>1. CASE UNCHANGED <<conn, opener, saver>> /\ Goto(t, "idle")
    BY <1>1, <1>8, <2>1 DEF TypeOK, Connect, Goto, file, import, cache
  <2>2. ASSUME NEW c \in Connections, conn' = [conn EXCEPT ![c] = "open"],
               opener' = [opener EXCEPT ![c] = t], saver' = [saver EXCEPT ![t] = c], Goto(t, "setup")
        PROVE  TypeOK'
    BY <1>1, <1>8, <2>2 DEF TypeOK, Connect, Goto, file, import, cache
  <2>. QED BY <1>8, <2>1, <2>2 DEF Connect
<1>9. ASSUME NEW t \in Threads, Setup(t) PROVE TypeOK'
  <2>1. saver[t] \in Connections
    BY <1>1, <1>9 DEF Setup, InHand, TypeOK
  <2>. QED BY <1>1, <1>9, <2>1 DEF TypeOK, Setup, Goto, file, import, cache
<1>18. ASSUME NEW t \in Threads, Unwind(t) PROVE TypeOK'
  BY <1>1, <1>18 DEF TypeOK, Unwind, Goto, file, import, cache
<1>10. ASSUME NEW t \in Threads, Register(t) PROVE TypeOK'
  <2>1. saver[t] \in Connections
    BY <1>1, <1>10 DEF Register, InHand, TypeOK
  <2>. QED BY <1>1, <1>10, <2>1 DEF TypeOK, Register, Goto, file, import, pool
<1>11. ASSUME NEW t \in Threads, Store(t) \/ Done(t) PROVE TypeOK'
  BY <1>1, <1>11 DEF TypeOK, Store, Done, Goto, file, import, pool, cache
<1>12. CASE Exit
  BY <1>1, <1>12 DEF TypeOK, Exit, file, import, pool, cache
<1>13. CASE Close
  BY <1>1, <1>13 DEF TypeOK, Close, file, import
<1>14. CASE Closed
  BY <1>1, <1>14 DEF TypeOK, Closed, file, import, pool
<1>15. CASE Drop
  BY <1>1, <1>15 DEF TypeOK, Drop, file, import, cache
<1>16. CASE Edit
  BY <1>1, <1>16 DEF TypeOK, Edit, import, pool, cache
<1>17. CASE UNCHANGED vars
  BY <1>1, <1>17 DEF TypeOK, vars, file, import, pool, cache
<1>. QED
  BY <1>2, <1>3, <1>4, <1>5, <1>6, <1>7, <1>8, <1>9, <1>10, <1>11, <1>12, <1>13, <1>14, <1>15,
     <1>16, <1>17, <1>18
  DEF Next, Build

-----------------------------------------------------------------------------
(* The import.                                                             *)

\* Every step keeps the lock, the count of clients and the module in order.
LEMMA ImportStep == IInv /\ [Next]_vars => ImportOK'
<1> SUFFICES ASSUME IInv, [Next]_vars PROVE ImportOK'
  OBVIOUS
<1> USE BuildBounds, ThreadsAssumption
<1>1. TypeOK /\ ImportOK
  BY DEF IInv
<1>2. ASSUME NEW t \in Threads, Start(t) PROVE ImportOK'
  BY <1>1, <1>2 DEF TypeOK, ImportOK, Start, Goto, import, Later, Opening
<1>3. ASSUME NEW t \in Threads, Imported(t) PROVE ImportOK'
  BY <1>1, <1>3 DEF TypeOK, ImportOK, Imported, Goto, import, Later, Opening
<1>4. ASSUME NEW t \in Threads, Import(t) PROVE ImportOK'
  BY <1>1, <1>4 DEF TypeOK, ImportOK, Import
<1>5. ASSUME NEW t \in Threads, MakeClient(t) PROVE ImportOK'
  <2>1. /\ lock = t /\ lock # NoThread /\ pc' = pc /\ made' = made + 1 /\ made \in Nat
        /\ made < NumAgents /\ \A u \in Threads : pc[u] \notin Later
    BY <1>1, <1>5 DEF TypeOK, ImportOK, MakeClient
  <2>2. CASE made + 1 = NumAgents
    <3>1. loaded' = TRUE /\ lock' = NoThread
      BY <1>5, <2>2 DEF MakeClient
    <3>. QED BY <2>1, <2>2, <3>1 DEF ImportOK
  <2>3. CASE made + 1 # NumAgents
    <3>1. loaded' = FALSE /\ lock' = t
      BY <1>5, <2>3 DEF MakeClient
    <3>. QED BY <1>1, <2>1, <2>3, <3>1 DEF ImportOK
  <2>. QED BY <2>2, <2>3
<1>6. ASSUME NEW t \in Threads, MakeClientFails(t) PROVE ImportOK'
  BY <1>1, <1>6 DEF TypeOK, ImportOK, MakeClientFails, Goto, Later, Opening
<1>7. ASSUME NEW t \in Threads,
             Lookup(t) \/ Connect(t) \/ Setup(t) \/ Unwind(t) \/ Register(t) \/ Store(t) \/ Done(t)
      PROVE  ImportOK'
  <2>1. UNCHANGED <<lock, made, loaded>>
    BY <1>7 DEF Lookup, Connect, Setup, Unwind, Register, Store, Done, import
  <2>2. pc[t] \in Later /\ \E s \in Later \cup {"idle"} : pc' = [pc EXCEPT ![t] = s]
    BY <1>7 DEF Lookup, Connect, Setup, Unwind, Register, Store, Done, Goto, Later, Opening
  <2>. QED BY <1>1, <2>1, <2>2 DEF TypeOK, ImportOK, Later, Opening
<1>8. CASE UNCHANGED <<lock, made, loaded, pc>>
  BY <1>1, <1>8 DEF ImportOK
<1>9. Exit \/ Close \/ Closed \/ Drop \/ Edit => UNCHANGED <<lock, made, loaded, pc>>
  BY DEF Exit, Close, Closed, Drop, Edit, import
<1>. QED
  BY <1>2, <1>3, <1>4, <1>5, <1>6, <1>7, <1>8, <1>9 DEF Next, Build, vars, import

\* A client that was made for the routing file matches it.
LEMMA MadeMatches ==
  ASSUME TypeOK, NEW a \in Agents, NEW e, ClientFor(routing, a, e), routing \in versions
  PROVE  \E c \in versions :
            /\ e \in Endpoints(c) /\ a \in DOMAIN c.agents
            /\ {f \in Endpoints(c) : c.agents[a] \in c.endpoints[f].models} = {e}
            /\ c.endpoints[e].key \in KeysSet
<1>1. /\ e \in Endpoints(routing) /\ Valid(routing) /\ a \in DOMAIN routing.agents
      /\ routing.agents[a] \in routing.endpoints[e].models
      /\ routing.endpoints[e].key \in KeysSet
  BY DEF ClientFor
<1>2. Endpoints(routing) = DOMAIN routing.endpoints
  BY <1>1 DEF Endpoints
<1>3. ASSUME NEW f \in Endpoints(routing), routing.agents[a] \in routing.endpoints[f].models
      PROVE  f = e
  BY <1>1, <1>2, <1>3 DEF Valid
<1>4. {f \in Endpoints(routing) : routing.agents[a] \in routing.endpoints[f].models} = {e}
  BY <1>1, <1>3
<1>. QED BY <1>1, <1>4

LEMMA ClientsStep == IInv /\ [Next]_vars => ClientsOK'
<1> SUFFICES ASSUME IInv, [Next]_vars PROVE ClientsOK'
  OBVIOUS
<1> USE BuildBounds, ThreadsAssumption
<1>1. TypeOK /\ ImportOK /\ ClientsOK
  BY DEF IInv
<1>2. ASSUME UNCHANGED client, versions \subseteq versions', NEW a \in 1..made
      PROVE  Matches(a)'
  BY <1>1, <1>2 DEF ClientsOK, Matches
<1>3. ASSUME NEW t \in Threads, MakeClient(t) PROVE ClientsOK'
  <2>1. PICK e \in NextClient : client' = [client EXCEPT ![made + 1] = e]
    BY <1>3 DEF MakeClient
  <2>2. made + 1 \in Agents /\ made' = made + 1 /\ UNCHANGED <<routing, versions>>
    BY <1>1, <1>3 DEF MakeClient, ImportOK, TypeOK, Agents, file
  <2>3. ASSUME NEW a \in 1..made' PROVE Matches(a)'
    <3>1. CASE a = made + 1
      <4>1. client'[a] = e /\ ClientFor(routing, a, e)
        BY <1>1, <2>1, <2>2, <3>1 DEF TypeOK, NextClient
      <4>2. routing \in versions
        BY <1>1 DEF ClientsOK
      <4>3. \E c \in versions :
               /\ e \in Endpoints(c) /\ a \in DOMAIN c.agents
               /\ {f \in Endpoints(c) : c.agents[a] \in c.endpoints[f].models} = {e}
               /\ c.endpoints[e].key \in KeysSet
        BY <1>1, <2>2, <3>1, <4>1, <4>2, MadeMatches
      <4>. QED BY <2>2, <4>1, <4>3 DEF Matches
    <3>2. CASE a # made + 1
      <4>1. a \in 1..made /\ client'[a] = client[a]
        BY <1>1, <2>1, <2>2, <2>3, <3>2 DEF TypeOK, Agents
      <4>. QED BY <1>1, <2>2, <4>1 DEF ClientsOK, Matches
    <3>. QED BY <3>1, <3>2
  <2>. QED BY <1>1, <2>2, <2>3 DEF ClientsOK
<1>4. ASSUME NEW t \in Threads, MakeClientFails(t) PROVE ClientsOK'
  BY <1>1, <1>4 DEF ClientsOK, MakeClientFails, file
<1>5. CASE Edit
  <2>1. UNCHANGED <<client, made>> /\ versions \subseteq versions' /\ routing' \in versions'
    BY <1>5 DEF Edit, import
  <2>. QED BY <1>2, <2>1 DEF ClientsOK
<1>6. CASE UNCHANGED <<client, made, versions, routing>>
  BY <1>1, <1>2, <1>6 DEF ClientsOK
<1>7. ASSUME NEW t \in Threads,
             Start(t) \/ Imported(t) \/ Import(t) \/ Lookup(t) \/ Connect(t) \/ Setup(t)
             \/ Unwind(t) \/ Register(t) \/ Store(t) \/ Done(t)
      PROVE  UNCHANGED <<client, made, versions, routing>>
  BY <1>7 DEF Start, Imported, Import, Lookup, Connect, Setup, Unwind, Register, Store, Done,
     import, file
<1>8. Exit \/ Close \/ Closed \/ Drop \/ UNCHANGED vars =>
        UNCHANGED <<client, made, versions, routing>>
  BY DEF Exit, Close, Closed, Drop, vars, import, file
<1>. QED BY <1>3, <1>4, <1>5, <1>6, <1>7, <1>8 DEF Next, Build

-----------------------------------------------------------------------------
(* The connections.                                                        *)

Held == (\A t \in Threads : InHand(t)) /\ ConnectionsOK /\ OpenersOK

\* A step of a thread that has nothing in hand yet, and does not open anything.
LEMMA EmptyHandedHeld ==
  ASSUME TypeOK, Held, NEW t \in Threads, UNCHANGED <<saver, pool, cache, phase>>, phase = "up",
         pc[t] \in {"idle", "importing"}, NEW s \in {"idle", "importing", "resolving"},
         pc' = [pc EXCEPT ![t] = s]
  PROVE  Held'
<1>1. pc'[t] = s /\ \A u \in Threads \ {t} : pc'[u] = pc[u]
  BY DEF TypeOK
<1>2. \A u \in Threads : InHand(u)'
  BY <1>1 DEF Held, InHand, pool, cache
<1>3. ConnectionsOK'
  BY <1>1 DEF Held, ConnectionsOK, pool, cache
<1>4. OpenersOK'
  BY <1>1 DEF Held, OpenersOK, OneConnectionPerThread, Opening, pool, cache
<1>. QED BY <1>2, <1>3, <1>4 DEF Held

LEMMA LookupHeld ==
  ASSUME TypeOK, Held, NEW t \in Threads, Lookup(t)
  PROVE  Held'
<1>1. pc[t] = "resolving" /\ phase = "up" /\ UNCHANGED <<conn, ready, opener, registered, cached, phase>>
  BY DEF Held, ConnectionsOK, Lookup, pool, cache
<1>2. CASE cached # 0
  <2>1. saver' = [saver EXCEPT ![t] = cached] /\ pc' = [pc EXCEPT ![t] = "using"]
    BY <1>2 DEF Lookup, Goto
  <2>2. /\ pc'[t] = "using" /\ saver'[t] = cached /\ cached \in registered
        /\ \A u \in Threads \ {t} : pc'[u] = pc[u] /\ saver'[u] = saver[u]
    BY <1>1, <1>2, <2>1 DEF TypeOK, Held, ConnectionsOK
  <2>3. \A u \in Threads : InHand(u)'
    BY <1>1, <2>2 DEF Held, InHand
  <2>4. ConnectionsOK'
    BY <1>1, <2>2 DEF Held, ConnectionsOK
  <2>5. OpenersOK'
    BY <1>1, <1>2, <2>2 DEF Held, OpenersOK, OneConnectionPerThread, Opening
  <2>. QED BY <2>3, <2>4, <2>5 DEF Held
<1>3. CASE cached = 0
  <2>1. pc' = [pc EXCEPT ![t] = "connecting"] /\ UNCHANGED saver
    BY <1>3 DEF Lookup, Goto
  <2>2. /\ pc'[t] = "connecting" /\ \A u \in Threads \ {t} : pc'[u] = pc[u]
        /\ \A c \in registered : opener[c] # t
    BY <1>1, <1>3, <2>1 DEF TypeOK, Held, OpenersOK
  <2>3. \A u \in Threads : InHand(u)'
    BY <1>1, <2>1, <2>2 DEF Held, InHand
  <2>4. ConnectionsOK'
    BY <1>1, <2>1, <2>2 DEF Held, ConnectionsOK
  <2>5. OpenersOK'
    BY <1>1, <1>3, <2>2 DEF Held, OpenersOK, OneConnectionPerThread, Opening
  <2>. QED BY <2>3, <2>4, <2>5 DEF Held
<1>. QED BY <1>2, <1>3

\* What a thread that is opening a connection has not got: one that is registered.
LEMMA OpeningHasNone ==
  ASSUME Held, NEW t \in Threads, pc[t] \in Opening
  PROVE  phase = "up" /\ \A c \in registered : opener[c] # t
  BY DEF Held, ConnectionsOK, OpenersOK, Opening

\* A thread that gives up, its connection closed or not even opened.
LEMMA GivesUpHeld ==
  ASSUME TypeOK, Held, NEW t \in Threads, pc[t] \in {"connecting", "unwinding"},
         UNCHANGED <<ready, opener, registered, cached, phase>>,
         pc' = [pc EXCEPT ![t] = "idle"], saver' = [saver EXCEPT ![t] = 0],
         conn' = IF pc[t] = "unwinding" THEN [conn EXCEPT ![saver[t]] = "closed"] ELSE conn
  PROVE  Held'
<1>1. /\ pc'[t] = "idle" /\ saver'[t] = 0
      /\ \A u \in Threads \ {t} : pc'[u] = pc[u] /\ saver'[u] = saver[u]
  BY DEF TypeOK
<1>2. phase = "up" /\ saver[t] \notin registered /\ \A c \in registered : opener[c] # t
  <2>1. phase = "up" /\ \A c \in registered : opener[c] # t
    BY OpeningHasNone DEF Opening
  <2>2. CASE pc[t] = "unwinding"
    BY <2>1, <2>2 DEF Held, InHand
  <2>3. CASE pc[t] = "connecting"
    BY <2>1, <2>3 DEF Held, InHand, TypeOK, Connections
  <2>. QED BY <2>1, <2>2, <2>3
<1>3. \A c \in Connections : c # saver[t] => conn'[c] = conn[c]
  <2>1. CASE pc[t] = "unwinding"
    BY <2>1 DEF TypeOK
  <2>2. CASE pc[t] # "unwinding"
    BY <2>2
  <2>. QED BY <2>1, <2>2
<1>4. saver[t] \in Connections => conn'[saver[t]] = "closed"
  <2>1. CASE pc[t] = "unwinding"
    BY <2>1 DEF TypeOK
  <2>2. CASE pc[t] # "unwinding"
    BY <2>2 DEF TypeOK, Held, InHand, Connections
  <2>. QED BY <2>1, <2>2
<1>5. ASSUME NEW u \in Threads PROVE InHand(u)'
  <2>1. CASE u = t
    BY <1>1, <2>1 DEF InHand
  <2>2. CASE u # t
    <3>1. pc[u] \in {"setup", "unwinding", "register", "store"} =>
             saver[u] \in Connections /\ saver[u] # saver[t]
      <4>1. CASE pc[t] = "unwinding"
        BY <2>2, <4>1 DEF TypeOK, Held, InHand
      <4>2. CASE pc[t] = "connecting"
        BY <2>2, <4>2 DEF TypeOK, Held, InHand
      <4>. QED BY <4>1, <4>2
    <3>. QED BY <1>1, <1>3, <2>2, <3>1 DEF Held, InHand
  <2>. QED BY <2>1, <2>2
<1>6. ConnectionsOK'
  BY <1>1, <1>2, <1>3, <1>4 DEF TypeOK, Held, ConnectionsOK
<1>7. OpenersOK'
  BY <1>1, <1>2 DEF Held, OpenersOK, OneConnectionPerThread, Opening
<1>. QED BY <1>5, <1>6, <1>7 DEF Held

\* A new connection: nobody has it in hand, and it is not registered.
LEMMA ConnectHeld ==
  ASSUME TypeOK, Held, NEW t \in Threads, pc[t] = "connecting",
         UNCHANGED <<ready, registered, cached, phase>>,
         NEW c \in Connections, conn[c] = "none",
         conn' = [conn EXCEPT ![c] = "open"], opener' = [opener EXCEPT ![c] = t],
         saver' = [saver EXCEPT ![t] = c], pc' = [pc EXCEPT ![t] = "setup"]
  PROVE  Held'
<1>1. /\ pc'[t] = "setup" /\ saver'[t] = c /\ c # 0
      /\ \A u \in Threads \ {t} : pc'[u] = pc[u] /\ saver'[u] = saver[u]
  BY DEF TypeOK, Connections
<1>2. phase = "up" /\ c \notin registered /\ \A d \in registered : opener[d] # t
  BY OpeningHasNone DEF Opening, Held, ConnectionsOK
<1>3. /\ conn'[c] = "open" /\ opener'[c] = t
      /\ \A d \in Connections : d # c => conn'[d] = conn[d] /\ opener'[d] = opener[d]
  BY DEF TypeOK
<1>4. ASSUME NEW u \in Threads PROVE InHand(u)'
  <2>1. CASE u = t
    BY <1>1, <1>2, <1>3, <2>1 DEF InHand
  <2>2. CASE u # t
    <3>1. pc[u] \in {"setup", "unwinding", "register", "store"} => saver[u] \in Connections /\ saver[u] # c
      BY <2>2 DEF TypeOK, Held, InHand
    <3>. QED BY <1>1, <1>3, <2>2, <3>1 DEF Held, InHand
  <2>. QED BY <2>1, <2>2
<1>5. registered \subseteq Connections
  BY DEF TypeOK
<1>6. ConnectionsOK'
  <2>1. \A d \in registered : d \in ready /\ conn'[d] \in {"open", "dropped"}
    BY <1>2, <1>3, <1>5 DEF Held, ConnectionsOK
  <2>2. ASSUME NEW d \in Connections, conn'[d] = "open", d \notin registered
        PROVE  \E u \in Threads : pc'[u] \in {"setup", "unwinding", "register"} /\ saver'[u] = d
    <3>1. CASE d = c
      BY <1>1, <3>1
    <3>2. CASE d # c
      BY <1>1, <1>3, <2>2, <3>2 DEF Held, ConnectionsOK
    <3>. QED BY <3>1, <3>2
  <2>. QED BY <1>2, <2>1, <2>2 DEF Held, ConnectionsOK
<1>7. OpenersOK'
  BY <1>1, <1>2, <1>3, <1>5 DEF Held, OpenersOK, OneConnectionPerThread, Opening
<1>. QED BY <1>4, <1>6, <1>7 DEF Held

\* The tables are there, or not.
LEMMA SetupHeld ==
  ASSUME TypeOK, Held, NEW t \in Threads, pc[t] = "setup",
         UNCHANGED <<conn, saver, opener, registered, cached, phase>>,
         NEW s \in {"register", "unwinding"}, pc' = [pc EXCEPT ![t] = s],
         ready' = IF s = "register" THEN ready \cup {saver[t]} ELSE ready
  PROVE  Held'
<1>1. pc'[t] = s /\ \A u \in Threads \ {t} : pc'[u] = pc[u]
  BY DEF TypeOK
<1>2. phase = "up" /\ \A c \in registered : opener[c] # t
  BY OpeningHasNone DEF Opening
<1>3. \A u \in Threads : InHand(u)'
  BY <1>1 DEF Held, InHand
<1>4. ConnectionsOK'
  <2>1. \A d \in Connections : conn'[d] = "open" =>
          d \in registered' \/ \E u \in Threads : pc'[u] \in {"setup", "unwinding", "register"} /\ saver'[u] = d
    BY <1>1 DEF Held, ConnectionsOK
  <2>. QED BY <1>2, <2>1 DEF Held, ConnectionsOK
<1>5. OpenersOK'
  BY <1>1, <1>2 DEF Held, OpenersOK, OneConnectionPerThread, Opening
<1>. QED BY <1>3, <1>4, <1>5 DEF Held

\* The first connection this thread has registered.
LEMMA RegisterHeld ==
  ASSUME TypeOK, Held, NEW t \in Threads, pc[t] = "register",
         UNCHANGED <<conn, saver, opener, ready, cached, phase>>,
         registered' = registered \cup {saver[t]}, pc' = [pc EXCEPT ![t] = "store"]
  PROVE  Held'
<1>1. pc'[t] = "store" /\ \A u \in Threads \ {t} : pc'[u] = pc[u]
  BY DEF TypeOK
<1>2. phase = "up" /\ \A c \in registered : opener[c] # t
  BY OpeningHasNone DEF Opening
<1>3. /\ opener[saver[t]] = t /\ conn[saver[t]] \in {"open", "dropped"} /\ saver[t] \in ready
      /\ saver[t] # 0
  BY DEF Held, InHand
<1>4. ASSUME NEW u \in Threads PROVE InHand(u)'
  <2>1. CASE u = t
    BY <1>1, <1>3, <2>1 DEF InHand
  <2>2. CASE u # t
    <3>1. pc[u] \in {"setup", "unwinding", "register"} => saver[u] # saver[t]
      BY <1>3, <2>2 DEF Held, InHand
    <3>. QED BY <1>1, <2>2, <3>1 DEF Held, InHand
  <2>. QED BY <2>1, <2>2
<1>5. ConnectionsOK'
  <2>1. ASSUME NEW d \in Connections, conn'[d] = "open", d \notin registered'
        PROVE  \E u \in Threads : pc'[u] \in {"setup", "unwinding", "register"} /\ saver'[u] = d
    <3>1. PICK u \in Threads : pc[u] \in {"setup", "unwinding", "register"} /\ saver[u] = d
      BY <2>1 DEF Held, ConnectionsOK
    <3>2. u # t
      BY <2>1, <3>1
    <3>. QED BY <1>1, <3>1, <3>2
  <2>. QED BY <1>2, <1>3, <2>1 DEF Held, ConnectionsOK
<1>6. OpenersOK'
  <2>1. OneConnectionPerThread'
    BY <1>2, <1>3 DEF Held, OpenersOK, OneConnectionPerThread
  <2>. QED BY <1>1, <1>2, <1>3, <2>1 DEF Held, OpenersOK, Opening
<1>. QED BY <1>4, <1>5, <1>6 DEF Held

\* The saver is in the cache, in the place of another one perhaps.
LEMMA StoreHeld ==
  ASSUME TypeOK, Held, NEW t \in Threads, Store(t)
  PROVE  Held'
<1>1. /\ pc[t] = "store" /\ cached' = saver[t]
      /\ UNCHANGED <<saver, conn, ready, opener, registered, phase>>
      /\ pc'[t] = "using" /\ \A u \in Threads \ {t} : pc'[u] = pc[u]
  BY DEF TypeOK, Store, Goto, pool
<1>2. saver[t] \in registered /\ saver[t] # 0
  BY <1>1 DEF Held, InHand
<1>3. \A u \in Threads : InHand(u)'
  BY <1>1, <1>2 DEF Held, InHand
<1>4. ConnectionsOK'
  <2>1. phase = "up"
    BY <1>1 DEF Held, ConnectionsOK
  <2>. QED BY <1>1, <1>2, <2>1 DEF Held, ConnectionsOK
<1>5. OpenersOK'
  BY <1>1, <1>2 DEF Held, OpenersOK, OneConnectionPerThread, Opening
<1>. QED BY <1>3, <1>4, <1>5 DEF Held

LEMMA DoneHeld ==
  ASSUME TypeOK, Held, NEW t \in Threads, Done(t)
  PROVE  Held'
<1>1. /\ pc[t] = "using" /\ UNCHANGED <<conn, ready, opener, registered, cached, phase>>
      /\ pc'[t] = "idle" /\ saver'[t] = 0
      /\ \A u \in Threads \ {t} : pc'[u] = pc[u] /\ saver'[u] = saver[u]
  BY DEF TypeOK, Done, Goto, pool, cache
<1>2. \A u \in Threads : InHand(u)'
  BY <1>1 DEF Held, InHand
<1>3. ConnectionsOK'
  BY <1>1 DEF Held, ConnectionsOK
<1>4. OpenersOK'
  BY <1>1 DEF Held, OpenersOK, OneConnectionPerThread, Opening
<1>. QED BY <1>2, <1>3, <1>4 DEF Held

\* The exit handler runs when every thread is idle, and closes what is registered.
LEMMA ExitHeld ==
  ASSUME TypeOK, Held, Exit \/ Close \/ Closed
  PROVE  Held'
<1>1. /\ UNCHANGED <<pc, saver, ready, opener>> /\ phase' # "up"
      /\ \A t \in Threads : pc[t] = "idle"
  BY DEF Held, ConnectionsOK, Exit, Close, Closed, pool, cache
<1>2. \A t \in Threads : InHand(t)'
  BY <1>1 DEF Held, InHand
<1>3. \A c \in Connections : conn[c] = "open" => c \in registered
  BY <1>1 DEF Held, ConnectionsOK
<1>4. CASE Exit
  BY <1>1, <1>2, <1>4 DEF Held, ConnectionsOK, OpenersOK, OneConnectionPerThread, Exit, pool, cache,
     Opening
<1>5. CASE Close
  <2>1. PICK c \in registered :
          /\ registered' = registered \ {c}
          /\ conn' = [conn EXCEPT ![c] = IF conn[c] = "open" THEN "closed" ELSE conn[c]]
    BY <1>5 DEF Close
  <2>2. /\ c \in Connections /\ conn'[c] # "open"
        /\ \A d \in Connections : d # c => conn'[d] = conn[d]
    BY <2>1 DEF TypeOK
  <2>3. registered \subseteq Connections /\ phase = "closing" /\ phase' = "closing"
    BY <1>5 DEF TypeOK, Close
  <2>4. ConnectionsOK'
    BY <1>1, <1>3, <2>1, <2>2, <2>3 DEF Held, ConnectionsOK
  <2>5. OpenersOK'
    BY <1>1, <2>1, <2>3 DEF Held, OpenersOK, OneConnectionPerThread, Opening
  <2>. QED BY <1>2, <2>4, <2>5 DEF Held
<1>6. CASE Closed
  BY <1>1, <1>2, <1>3, <1>6 DEF Held, ConnectionsOK, OpenersOK, OneConnectionPerThread, Closed, pool
<1>. QED BY <1>4, <1>5, <1>6

\* A dropped connection is as good as an open one to whoever has it.
LEMMA DropHeld ==
  ASSUME TypeOK, Held, Drop
  PROVE  Held'
<1>1. PICK c \in Connections : conn[c] = "open" /\ conn' = [conn EXCEPT ![c] = "dropped"]
  BY DEF Drop
<1>2. UNCHANGED <<pc, saver, ready, opener, registered, cached, phase>>
  BY DEF Drop, cache
<1>3. conn'[c] = "dropped" /\ \A d \in Connections : d # c => conn'[d] = conn[d]
  BY <1>1 DEF TypeOK
<1>4. registered \subseteq Connections /\ \A t \in Threads : saver[t] # 0 => saver[t] \in Connections
  BY DEF TypeOK
<1>5. \A t \in Threads : InHand(t)'
  BY <1>2, <1>3, <1>4 DEF Held, InHand
<1>6. ConnectionsOK'
  BY <1>2, <1>3, <1>4 DEF Held, ConnectionsOK
<1>7. OpenersOK'
  BY <1>2 DEF Held, OpenersOK, OneConnectionPerThread, Opening
<1>. QED BY <1>5, <1>6, <1>7 DEF Held

LEMMA HeldStep == IInv /\ [Next]_vars => Held'
<1> SUFFICES ASSUME IInv, [Next]_vars PROVE Held'
  OBVIOUS
<1>1. TypeOK /\ Held /\ ImportOK
  BY DEF IInv, Held
<1>2. ASSUME NEW t \in Threads, Start(t) PROVE Held'
  BY <1>1, <1>2, EmptyHandedHeld DEF Start, Goto
<1>3. ASSUME NEW t \in Threads, pc[t] = "importing" PROVE phase = "up"
  BY <1>1, <1>3 DEF Held, ConnectionsOK
<1>4. ASSUME NEW t \in Threads, Imported(t) PROVE Held'
  BY <1>1, <1>3, <1>4, EmptyHandedHeld DEF Imported, Goto
<1>5. ASSUME NEW t \in Threads, MakeClientFails(t) PROVE Held'
  <2>1. pc[t] = "importing"
    BY <1>1, <1>5, ThreadsAssumption DEF MakeClientFails, ImportOK
  <2>. QED BY <1>1, <1>3, <1>5, <2>1, EmptyHandedHeld DEF MakeClientFails, Goto
<1>6. ASSUME NEW t \in Threads, Lookup(t) PROVE Held'
  BY <1>1, <1>6, LookupHeld
<1>7. ASSUME NEW t \in Threads, Connect(t) PROVE Held'
  <2>1. pc[t] = "connecting" /\ UNCHANGED <<ready, registered, cached, phase>>
    BY <1>7 DEF Connect, cache
  <2>2. CASE Goto(t, "idle") /\ UNCHANGED <<conn, opener, saver>>
    <3>1. saver[t] = 0
      BY <1>1, <2>1 DEF Held, InHand
    <3>2. saver' = [saver EXCEPT ![t] = 0]
      BY <1>1, <2>2, <3>1 DEF TypeOK
    <3>. QED BY <1>1, <2>1, <2>2, <3>2, GivesUpHeld DEF Goto
  <2>3. ASSUME NEW c \in Connections, conn[c] = "none", conn' = [conn EXCEPT ![c] = "open"],
               opener' = [opener EXCEPT ![c] = t], saver' = [saver EXCEPT ![t] = c], Goto(t, "setup")
        PROVE  Held'
    BY <1>1, <2>1, <2>3, ConnectHeld DEF Goto
  <2>. QED BY <1>7, <2>2, <2>3 DEF Connect
<1>8. ASSUME NEW t \in Threads, Setup(t) PROVE Held'
  <2>1. pc[t] = "setup" /\ UNCHANGED <<conn, saver, opener, registered, cached, phase>>
    BY <1>8 DEF Setup, cache
  <2>2. CASE ready' = ready \cup {saver[t]} /\ Goto(t, "register")
    BY <1>1, <2>1, <2>2, SetupHeld DEF Goto
  <2>3. CASE ready' = ready /\ Goto(t, "unwinding")
    BY <1>1, <2>1, <2>3, SetupHeld DEF Goto
  <2>. QED BY <1>8, <2>2, <2>3 DEF Setup
<1>17. ASSUME NEW t \in Threads, Unwind(t) PROVE Held'
  BY <1>1, <1>17, GivesUpHeld DEF Unwind, Goto, cache
<1>9. ASSUME NEW t \in Threads, Register(t) PROVE Held'
  BY <1>1, <1>9, RegisterHeld DEF Register, Goto, pool
<1>10. ASSUME NEW t \in Threads, Store(t) PROVE Held'
  BY <1>1, <1>10, StoreHeld
<1>11. ASSUME NEW t \in Threads, Done(t) PROVE Held'
  BY <1>1, <1>11, DoneHeld
<1>12. CASE Exit \/ Close \/ Closed
  BY <1>1, <1>12, ExitHeld
<1>13. CASE Drop
  BY <1>1, <1>13, DropHeld
<1>14. CASE UNCHANGED <<pc, saver, pool, cache, phase>>
  BY <1>1, <1>14 DEF Held, InHand, ConnectionsOK, OpenersOK, OneConnectionPerThread, Opening, pool,
     cache
<1>15. ASSUME NEW t \in Threads, Import(t) \/ MakeClient(t)
       PROVE  UNCHANGED <<pc, saver, pool, cache, phase>>
  BY <1>15 DEF Import, MakeClient
<1>16. Edit \/ UNCHANGED vars => UNCHANGED <<pc, saver, pool, cache, phase>>
  BY DEF Edit, vars
<1>. QED
  BY <1>2, <1>4, <1>5, <1>6, <1>7, <1>8, <1>9, <1>10, <1>11, <1>12, <1>13, <1>14, <1>15, <1>16,
     <1>17
  DEF Next, Build

-----------------------------------------------------------------------------
(* The theorems.                                                           *)

LEMMA InitInv == Init => IInv
<1> SUFFICES ASSUME Init PROVE IInv
  OBVIOUS
<1> USE BuildBounds, ThreadsAssumption
<1>1. TypeOK
  <2>1. client \in [Agents -> Known \cup {"none"}]
    BY DEF Init
  <2>2. /\ pc \in [Threads -> {"idle", "importing", "resolving", "connecting", "setup",
                              "unwinding", "register", "store", "using"}]
        /\ saver \in [Threads -> {0} \cup Connections]
    BY DEF Init
  <2>3. /\ conn \in [Connections -> {"none", "open", "dropped", "closed"}]
        /\ opener \in [Connections -> Threads \cup {NoThread}]
    BY DEF Init
  <2>4. /\ routing \in Configs \cup {NoFile} /\ versions \subseteq Configs \cup {NoFile}
        /\ lock \in Threads \cup {NoThread} /\ loaded \in BOOLEAN
    BY DEF Init
  <2>6. made \in 0..NumAgents
    BY DEF Init
  <2>5. /\ ready \subseteq Connections /\ registered \subseteq Connections
        /\ cached \in {0} \cup Connections /\ phase \in {"up", "closing", "down"}
        /\ builds \in 0..MaxBuilds /\ edits \in 0..MaxEdits
    BY DEF Init
  <2>. QED BY <2>1, <2>2, <2>3, <2>4, <2>5, <2>6 DEF TypeOK
<1>2. ImportOK /\ ClientsOK
  BY DEF Init, ImportOK, ClientsOK, Later, Opening
<1>3. \A t \in Threads : InHand(t)
  BY DEF Init, InHand
<1>4. ConnectionsOK
  BY DEF Init, ConnectionsOK
<1>5. OpenersOK
  BY DEF Init, OpenersOK, OneConnectionPerThread
<1>. QED BY <1>1, <1>2, <1>3, <1>4, <1>5 DEF IInv

\* The invariant every other theorem here follows from.
THEOREM Inductive == Spec => []IInv
<1>1. IInv /\ [Next]_vars => IInv'
  BY TypeStep, ImportStep, ClientsStep, HeldStep DEF IInv, Held
<1>. QED BY InitInv, <1>1, PTL DEF Spec

\* The states of builds, imports and connections keep their types.
THEOREM TypeCorrect == Spec => []TypeOK
<1>1. IInv => TypeOK
  BY DEF IInv
<1>. QED BY Inductive, <1>1, PTL

\* An open connection is in the hands of the thread that opened it or will be closed
\* by the exit handler, however many threads race for the cache and whatever fails.
THEOREM NoConnectionLeaks == Spec => []NothingLeaks
<1>1. ASSUME IInv PROVE NothingLeaks
  <2>1. ASSUME NEW c \in Connections, conn[c] = "open", c \notin registered
        PROVE  \E t \in Threads : saver[t] = c /\ opener[c] = t
    <3>1. PICK t \in Threads : pc[t] \in {"setup", "unwinding", "register"} /\ saver[t] = c
      BY <1>1, <2>1 DEF IInv, ConnectionsOK
    <3>. QED BY <1>1, <3>1 DEF IInv, InHand
  <2>2. ASSUME phase = "down", NEW c \in Connections PROVE conn[c] # "open"
    BY <1>1, <2>2 DEF IInv, ConnectionsOK
  <2>. QED BY <2>1, <2>2 DEF NothingLeaks
<1>. QED BY Inductive, <1>1, PTL

\* No thread invokes a graph, or finds a saver in the cache, whose tables were not
\* created or whose connection this process has closed.
THEOREM SaversStayUsable == Spec => []SaversAreUsable
<1>1. ASSUME IInv PROVE SaversAreUsable
  <2>1. ASSUME NEW c \in {cached} \cup {saver[t] : t \in {u \in Threads : pc[u] = "using"}},
               c # 0, phase = "up"
        PROVE  c \in registered
    <3>1. CASE c = cached
      BY <1>1, <2>1, <3>1 DEF IInv, ConnectionsOK
    <3>2. CASE c # cached
      <4>1. PICK t \in Threads : pc[t] = "using" /\ c = saver[t]
        BY <2>1, <3>2
      <4>. QED BY <1>1, <4>1 DEF IInv, InHand
    <3>. QED BY <3>1, <3>2
  <2>. QED BY <1>1, <2>1 DEF IInv, ConnectionsOK, SaversAreUsable
<1>. QED BY Inductive, <1>1, PTL

\* A thread opens at most one connection that stays, however many graphs it builds.
THEOREM OnePerThread == Spec => []OneConnectionPerThread
<1>1. IInv => OneConnectionPerThread
  BY DEF IInv, OpenersOK
<1>. QED BY Inductive, <1>1, PTL

\* Every agent of an imported module has the client some version of the routing file
\* asks for, whatever imports failed and however the file was edited meanwhile.
THEOREM ClientsAreRouted == Spec => []ClientsMatchRouting
<1>1. ASSUME IInv, loaded PROVE \A a \in Agents : Matches(a)
  <2>1. lock = NoThread /\ made = NumAgents
    BY <1>1 DEF IInv, ImportOK
  <2>. QED BY <1>1, <2>1 DEF IInv, ClientsOK, Agents
<1>2. IInv => ClientsMatchRouting
  BY <1>1 DEF ClientsMatchRouting, Matches
<1>. QED BY Inductive, <1>2, PTL
=============================================================================
