------------------------------ MODULE Registry ------------------------------
(***************************************************************************)
(* Which executors a server knows of: OpenTaskServer keeps the executors   *)
(* connected to it (CurrentNodeOnlineUsers) and publishes the list, as a   *)
(* retained message of its own broker, at every change; ClusterSubscriber  *)
(* copies the lists of the other servers (OtherNodeOlineUsers).            *)
(*                                                                         *)
(* A list is serialised in the handler of one connection and published by  *)
(* a client all handlers share, so of two lists the older may go out last. *)
(* The MQTT library delivers what a broker retains, in order, to every     *)
(* subscriber; between any two running servers there is one (their coming  *)
(* and going is the subject of Discovery).                                 *)
(***************************************************************************)
EXTENDS Naturals, Sequences, SequencesExt

CONSTANTS
  Servers,   \* server identifiers
  Workers,   \* client identifiers of executors, one per process
  Home,      \* the server in the configuration of an executor: Addr.First()
  NoList,    \* the broker retains no list, or none was received
  MaxFaults  \* bound of the model: connections and messages lost, exceptions, processes killed

VARIABLES
  alive,     \* the servers that run
  link,      \* the connection of each executor to its server: "open" until it has subscribed
  hello,     \* executors whose SyncHandlers message is on its way
  own,       \* CurrentNodeOnlineUsers of each server
  pubs,      \* lists of each server serialised and not published, oldest first
  retained,  \* the list each broker retains
  known,     \* OtherNodeOlineUsers: known[t][s] is what t has of s
  newest,    \* history: what became of the list serialised last; "overtaken" if the broker
             \* got an older one after it, or did not get it
  faults     \* faults so far

registryVars == <<alive, link, hello, own, pubs, retained, known, newest, faults>>

\* An entry without handlers (Handelrs = null) is "new", with them "ready".
Listing == [Workers -> {"absent", "new", "ready"}]
NoClients == [w \in Workers |-> "absent"]

\* The lists s may announce: of executors that are configured for s.
ListingOf(s) == {l \in Listing : \A w \in Workers : l[w] # "absent" => Home[w] = s}

ASSUME RegistryAssumption ==
  /\ Home \in [Workers -> Servers]
  /\ NoList \notin Listing
  /\ MaxFaults \in Nat

\* Types.  Every list, announced, retained or received, is one of executors of the server
\* it is about: a task is never passed to a server for an executor it cannot have.
RegistryTypeOK ==
  /\ alive \in SUBSET Servers
  /\ link \in [Workers -> {"down", "open", "up", "dead"}]
  /\ hello \in SUBSET Workers
  /\ newest \in [Servers -> {"none", "pending", "out", "overtaken"}]
  /\ faults \in 0..MaxFaults
  /\ own \in [Servers -> Listing]
  /\ \A s \in Servers : own[s] \in ListingOf(s)
  /\ pubs \in [Servers -> Seq(Listing)]
  /\ \A s \in Servers : pubs[s] \in Seq(ListingOf(s))
  /\ retained \in [Servers -> Listing \cup {NoList}]
  /\ \A s \in Servers : retained[s] \in ListingOf(s) \cup {NoList}
  /\ known \in [Servers -> [Servers -> Listing \cup {NoList}]]
  /\ \A s, t \in Servers : known[t][s] \in ListingOf(s) \cup {NoList}

RegistryInit ==
  /\ alive = Servers
  /\ link = [w \in Workers |-> "down"]
  /\ hello = {}
  /\ own = [s \in Servers |-> NoClients]
  /\ pubs = [s \in Servers |-> <<>>]
  /\ retained = [s \in Servers |-> NoList]
  /\ known = [t \in Servers |-> [s \in Servers |-> NoList]]
  /\ newest = [s \in Servers |-> "none"]
  /\ faults = 0

-----------------------------------------------------------------------------
\* GetClientsByAppName: the executors of s itself and those it has of others,
\* whether or not these still run.
Clients(s) ==
  {w \in Workers :
     \/ own[s][w] # "absent"
     \/ \E t \in Servers : known[s][t] # NoList /\ known[s][t][w] # "absent"}

\* ... and those of them that have sent their handlers.
Supporting(s) ==
  {w \in Workers :
     \/ own[s][w] = "ready"
     \/ \E t \in Servers : known[s][t] # NoList /\ known[s][t][w] = "ready"}

Fault == faults < MaxFaults /\ faults' = faults + 1

\* Mutant: the list of all executors the server knows of is published.
Announce_AllOnline(s, w, entry) ==
  /\ own' = [own EXCEPT ![s][w] = entry]
  /\ pubs' = [pubs EXCEPT ![s] = Append(@,
       [x \in Workers |-> IF own'[s][x] # "absent" \/ x \notin Clients(s) THEN own'[s][x] ELSE "new"])]
  /\ newest' = [newest EXCEPT ![s] = "pending"]

\* The server changes the entry of w and serialises its list.
Announce(s, w, entry) ==
  /\ own' = [own EXCEPT ![s][w] = entry]
  /\ pubs' = [pubs EXCEPT ![s] = Append(@, own'[s])]
  /\ newest' = [newest EXCEPT ![s] = "pending"]

Connected(w) == link[w] \in {"open", "up"}

\* The broker has accepted the connection: TryAdd, then publish.
ClientConnected(w) ==
  /\ link[w] = "down"
  /\ Home[w] \in alive
  /\ own[Home[w]][w] = "absent"
  /\ link' = [link EXCEPT ![w] = "open"]
  /\ Announce(Home[w], w, "new")
  /\ UNCHANGED <<alive, hello, retained, known, faults>>

\* The executor, told that it is connected, subscribes to its topics and then publishes
\* its handlers.  What is sent to it before has no subscriber.
Subscribe(w) ==
  /\ link[w] = "open"
  /\ link' = [link EXCEPT ![w] = "up"]
  /\ hello' = hello \cup {w}
  /\ UNCHANGED <<alive, own, pubs, retained, known, newest, faults>>

\* SelfSubscriber receives the handlers of w: an entry that is gone stays gone.
SyncHandlers(w) ==
  /\ w \in hello
  /\ Home[w] \in alive
  /\ hello' = hello \ {w}
  /\ \/ /\ own[Home[w]][w] # "absent"
        /\ Announce(Home[w], w, "ready")
     \/ /\ own[Home[w]][w] = "absent"
        /\ UNCHANGED <<own, pubs, newest>>
  /\ UNCHANGED <<alive, link, retained, known, faults>>

\* Mutant: the entry is removed and nobody is told.
ClientDisconnected_Silent(w) ==
  /\ ~Connected(w)
  /\ Home[w] \in alive
  /\ own[Home[w]][w] # "absent"
  /\ own' = [own EXCEPT ![Home[w]][w] = "absent"]
  /\ UNCHANGED <<alive, link, hello, pubs, retained, known, newest, faults>>

\* The broker notices that the connection is gone: TryRemove, then publish.
ClientDisconnected(w) ==
  /\ ~Connected(w)
  /\ Home[w] \in alive
  /\ own[Home[w]][w] # "absent"
  /\ Announce(Home[w], w, "absent")
  /\ UNCHANGED <<alive, link, hello, retained, known, faults>>

Overtaken(s, i) ==
  CASE newest[s] = "pending" /\ i = Len(pubs[s]) -> "out"
    [] newest[s] = "pending" /\ i < Len(pubs[s]) -> "pending"
    [] OTHER -> "overtaken"

\* One of the lists under way reaches the broker, which retains it.
Publish(s, i) ==
  /\ i \in 1..Len(pubs[s])
  /\ retained' = [retained EXCEPT ![s] = pubs[s][i]]
  /\ pubs' = [pubs EXCEPT ![s] = RemoveAt(@, i)]
  /\ newest' = [newest EXCEPT ![s] = Overtaken(s, i)]
  /\ UNCHANGED <<alive, link, hello, own, known, faults>>

\* Mutant: the list received is added to the one known.
Receive_Merged(t, s) ==
  /\ t \in alive /\ s \in alive \ {t}
  /\ retained[s] \notin {NoList, known[t][s]}
  /\ known' = [known EXCEPT ![t][s] =
       IF @ = NoList THEN retained[s]
       ELSE [w \in Workers |-> IF retained[s][w] = "absent" THEN known[t][s][w] ELSE retained[s][w]]]
  /\ UNCHANGED <<alive, link, hello, own, pubs, retained, newest, faults>>

\* OnClientsChange: the list replaces the one t has of s.
Receive(t, s) ==
  /\ t \in alive /\ s \in alive \ {t}
  /\ retained[s] \notin {NoList, known[t][s]}
  /\ known' = [known EXCEPT ![t][s] = retained[s]]
  /\ UNCHANGED <<alive, link, hello, own, pubs, retained, newest, faults>>

\* Another client of the broker disconnects, a peer as a rule: nothing is removed, and
\* the list is published all the same.
OtherDisconnected(s) ==
  /\ s \in alive
  /\ Fault
  /\ pubs' = [pubs EXCEPT ![s] = Append(@, own[s])]
  /\ newest' = [newest EXCEPT ![s] = "pending"]
  /\ UNCHANGED <<alive, link, hello, own, retained, known>>

\* PublishAsync throws: the list never reaches the broker.
PublishFails(s, i) ==
  /\ i \in 1..Len(pubs[s])
  /\ Fault
  /\ pubs' = [pubs EXCEPT ![s] = RemoveAt(@, i)]
  /\ newest' = [newest EXCEPT ![s] = IF @ = "pending" /\ i = Len(pubs[s]) THEN "overtaken" ELSE @]
  /\ UNCHANGED <<alive, link, hello, own, retained, known>>

\* SelfSubscriber throws, or is not connected to its broker, when the handlers of w come.
HandlersLost(w) ==
  /\ w \in hello
  /\ Fault
  /\ hello' = hello \ {w}
  /\ UNCHANGED <<alive, link, own, pubs, retained, known, newest>>

\* The executor loses its connection, and may come back, or its process dies.
Disconnect(w, how) ==
  /\ Connected(w)
  /\ Fault
  /\ link' = [link EXCEPT ![w] = how]
  /\ hello' = hello \ {w}
  /\ UNCHANGED <<alive, own, pubs, retained, known, newest>>

\* The process of a server dies: its broker and all it knew are gone; what the
\* others know of it stays.
Kill(s) ==
  /\ s \in alive
  /\ Fault
  /\ alive' = alive \ {s}
  /\ link' = [w \in Workers |-> IF Home[w] = s /\ Connected(w) THEN "down" ELSE link[w]]
  /\ hello' = {w \in hello : Home[w] # s}
  /\ own' = [own EXCEPT ![s] = NoClients]
  /\ pubs' = [pubs EXCEPT ![s] = <<>>]
  /\ retained' = [retained EXCEPT ![s] = NoList]
  /\ known' = [known EXCEPT ![s] = [t \in Servers |-> NoList]]
  /\ newest' = [newest EXCEPT ![s] = "none"]

\* The process is started: the file of retained messages is deleted first.
Start(s) ==
  /\ s \notin alive
  /\ alive' = alive \cup {s}
  /\ UNCHANGED <<link, hello, own, pubs, retained, known, newest, faults>>

ListStep ==
  \/ \E w \in Workers :
       ClientConnected(w) \/ Subscribe(w) \/ SyncHandlers(w) \/ ClientDisconnected(w)
  \/ \E s \in Servers : \E i \in 1..Len(pubs[s]) : Publish(s, i)
  \/ \E s, t \in Servers : Receive(t, s)

ListFault ==
  \/ \E w \in Workers : HandlersLost(w)
  \/ \E s \in Servers : OtherDisconnected(s) \/ \E i \in 1..Len(pubs[s]) : PublishFails(s, i)

RegistryNext ==
  \/ ListStep
  \/ ListFault
  \/ \E w \in Workers, how \in {"down", "dead"} : Disconnect(w, how)
  \/ \E s \in Servers : Kill(s) \/ Start(s)

RegistrySpec == RegistryInit /\ [][RegistryNext]_registryVars

\* Brokers call their handlers, and messages arrive.  Nothing makes anybody fail.
FairRegistrySpec == RegistrySpec /\ WF_registryVars(ListStep)

-----------------------------------------------------------------------------
\* Whatever order the lists go out in, the broker retains the present list of its
\* server unless the latest one was overtaken by an older, or lost.
RetainedIsCurrent == \A s \in alive : newest[s] = "out" => retained[s] = own[s]

\* Once executors stop coming and going, every server has the present list of
\* every other, save one whose latest list was overtaken or lost, or that has published
\* none since it was started.
ListsSpread ==
  \A s, t \in Servers :
    <>[](s # t /\ {s, t} \subseteq alive /\ newest[s] # "none" =>
           newest[s] = "overtaken" \/ known[t][s] = own[s])
=============================================================================
