---------------------------- MODULE TaskRunProofs ---------------------------
(***************************************************************************)
(* Proofs about Registry and TaskRun for every set of servers, executors   *)
(* and calls, every configuration of the executors, either mode and all    *)
(* bounds.                                                                 *)
(*                                                                         *)
(* Registry: that the broker retains the present list once the latest one  *)
(* is out is not inductive: while that one is under way, it must still be  *)
(* the last of those under way and say what the server has.                *)
(*                                                                         *)
(* TaskRun: a row exists before anything names it, and its executor and    *)
(* task never change.  Until a row is started it is named in one place     *)
(* (the call, a message to a server, one to the executor, or its queue),   *)
(* and there with its executor; so it is started once, by that executor,   *)
(* and an answer under way is that executor's.  What a call or a           *)
(* subscriber has read of a row differs from the row at most in status and *)
(* result, and a result it has read had been reported.                     *)
(***************************************************************************)
EXTENDS TaskRun, SequenceTheorems, TLAPS

\* The list serialised last says what the server has.
LatestSaysOwn ==
  \A s \in Servers : newest[s] = "pending" => pubs[s] # <<>> /\ pubs[s][Len(pubs[s])] = own[s]

RegistryInv == RegistryTypeOK /\ LatestSaysOwn /\ \A s \in Servers : newest[s] = "out" => retained[s] = own[s]

-----------------------------------------------------------------------------
\* What is left of a sequence when one of its elements is taken out.
LEMMA RemoveAtFacts ==
  ASSUME NEW S, NEW q \in Seq(S), NEW i \in 1..Len(q)
  PROVE  /\ RemoveAt(q, i) \in Seq(S)
         /\ i < Len(q) => RemoveAt(q, i) # <<>> /\ RemoveAt(q, i)[Len(RemoveAt(q, i))] = q[Len(q)]
<1> DEFINE a == SubSeq(q, 1, i - 1)
           b == SubSeq(q, i + 1, Len(q))
<1>1. /\ a \in Seq(S) /\ Len(a) = i - 1
  <2>1. \A j \in 1..i - 1 : q[j] \in S
    OBVIOUS
  <2>2. i - 1 \in Int /\ 1 \in Int
    OBVIOUS
  <2> QED
    BY <2>1, <2>2, SubSeqProperties
<1>2. /\ b \in Seq(S) /\ Len(b) = Len(q) - i
      /\ \A j \in 1..Len(q) - i : b[j] = q[i + j]
  <2>1. \A j \in i + 1..Len(q) : q[j] \in S
    OBVIOUS
  <2>2. i + 1 \in Int /\ Len(q) \in Int
    OBVIOUS
  <2>3. /\ b \in Seq(S)
        /\ Len(b) = IF i + 1 <= Len(q) THEN Len(q) - (i + 1) + 1 ELSE 0
        /\ \A j \in 1..Len(q) - (i + 1) + 1 : b[j] = q[i + 1 + j - 1]
    BY <2>1, <2>2, SubSeqProperties
  <2> QED
    BY <2>3
<1> HIDE DEF a, b
<1>3. /\ a \o b \in Seq(S)
      /\ Len(a \o b) = Len(a) + Len(b)
      /\ \A j \in 1..Len(a) + Len(b) : (a \o b)[j] = IF j <= Len(a) THEN a[j] ELSE b[j - Len(a)]
  BY <1>1, <1>2, ConcatProperties
<1>4. RemoveAt(q, i) = a \o b
  BY DEF RemoveAt, a, b
<1>5. ASSUME i < Len(q)
      PROVE  a \o b # <<>> /\ (a \o b)[Len(a \o b)] = q[Len(q)]
  <2>1. Len(a \o b) = Len(q) - 1 /\ Len(q) - 1 \in 1..Len(a) + Len(b)
    BY <1>1, <1>2, <1>3, <1>5
  <2>2. (a \o b)[Len(q) - 1] = b[Len(q) - 1 - (i - 1)]
    <3>1. ~(Len(q) - 1 <= i - 1)
      BY <1>5
    <3>2. \A j \in 1..Len(a) + Len(b) : ~(j <= Len(a)) => (a \o b)[j] = b[j - Len(a)]
      BY <1>3
    <3> QED
      BY <1>1, <2>1, <3>1, <3>2
  <2>3. Len(q) - 1 - (i - 1) = Len(q) - i /\ Len(q) - i \in 1..Len(q) - i /\ i + (Len(q) - i) = Len(q)
    BY <1>5
  <2>4. b[Len(q) - i] = q[Len(q)]
    BY <1>2, <2>3
  <2> QED
    BY <1>3, <2>1, <2>2, <2>3, <2>4
<1> QED
  BY <1>3, <1>4, <1>5

\* A changed entry keeps the list one of executors of the server.
LEMMA ListingFacts ==
  ASSUME NEW s \in Servers, NEW l \in ListingOf(s), NEW w \in Workers, Home[w] = s,
         NEW entry \in {"absent", "new", "ready"}
  PROVE  [l EXCEPT ![w] = entry] \in ListingOf(s)
BY DEF ListingOf, Listing

LEMMA NoClientsFacts ==
  ASSUME NEW s \in Servers
  PROVE  NoClients \in ListingOf(s) /\ NoClients \in Listing
BY DEF ListingOf, Listing, NoClients

-----------------------------------------------------------------------------
LEMMA RegistryInitOK == RegistryInit => RegistryInv
<1> SUFFICES ASSUME RegistryInit
             PROVE  RegistryInv
  OBVIOUS
<1> USE DEF RegistryInit
<1>1. \A s \in Servers : <<>> \in Seq(ListingOf(s)) /\ <<>> \in Seq(Listing)
  OBVIOUS
<1>2. own \in [Servers -> Listing] /\ \A s \in Servers : own[s] \in ListingOf(s)
  BY NoClientsFacts
<1>3. RegistryTypeOK
  BY <1>1, <1>2, RegistryAssumption DEF RegistryTypeOK
<1>4. LatestSaysOwn
  BY DEF LatestSaysOwn
<1> QED
  BY <1>3, <1>4 DEF RegistryInv

\* The three handlers that change an entry.
LEMMA AnnounceOK ==
  ASSUME RegistryInv, NEW w \in Workers, NEW entry \in {"absent", "new", "ready"},
         Announce(Home[w], w, entry), retained' = retained
  PROVE  /\ own' \in [Servers -> Listing] /\ \A s \in Servers : own'[s] \in ListingOf(s)
         /\ pubs' \in [Servers -> Seq(Listing)] /\ \A s \in Servers : pubs'[s] \in Seq(ListingOf(s))
         /\ newest' \in [Servers -> {"none", "pending", "out", "overtaken"}]
         /\ LatestSaysOwn'
         /\ \A s \in Servers : newest'[s] = "out" => retained'[s] = own'[s]
<1> DEFINE h == Home[w]
<1>1. h \in Servers
  BY RegistryAssumption
<1>2. /\ own \in [Servers -> Listing] /\ pubs \in [Servers -> Seq(Listing)]
      /\ newest \in [Servers -> {"none", "pending", "out", "overtaken"}]
      /\ \A s \in Servers : own[s] \in ListingOf(s) /\ pubs[s] \in Seq(ListingOf(s))
  BY DEF RegistryInv, RegistryTypeOK
<1>3. /\ own' = [own EXCEPT ![h] = [own[h] EXCEPT ![w] = entry]]
      /\ pubs' = [pubs EXCEPT ![h] = Append(pubs[h], own'[h])]
      /\ newest' = [newest EXCEPT ![h] = "pending"]
  BY DEF Announce
<1> DEFINE l == [own[h] EXCEPT ![w] = entry]
<1>4. l \in ListingOf(h) /\ l \in Listing
  BY <1>1, <1>2, ListingFacts DEF ListingOf
<1> HIDE DEF l, h
<1>5. own' = [own EXCEPT ![h] = l] /\ own'[h] = l
  BY <1>1, <1>2, <1>3 DEF l
<1>6. own' \in [Servers -> Listing] /\ \A s \in Servers : own'[s] \in ListingOf(s)
  BY <1>1, <1>2, <1>4, <1>5
<1>7. pubs' = [pubs EXCEPT ![h] = Append(pubs[h], l)]
  BY <1>3, <1>5
<1>8. /\ Append(pubs[h], l) \in Seq(ListingOf(h)) /\ Append(pubs[h], l) \in Seq(Listing)
      /\ Append(pubs[h], l) # <<>>
      /\ Append(pubs[h], l)[Len(Append(pubs[h], l))] = l
  BY <1>1, <1>2, <1>4, AppendProperties
<1>9. pubs' \in [Servers -> Seq(Listing)] /\ \A s \in Servers : pubs'[s] \in Seq(ListingOf(s))
  BY <1>1, <1>2, <1>7, <1>8
<1>10. newest' \in [Servers -> {"none", "pending", "out", "overtaken"}]
  BY <1>1, <1>2, <1>3
<1>11. ASSUME NEW s \in Servers
       PROVE  /\ newest'[s] = "pending" => pubs'[s] # <<>> /\ pubs'[s][Len(pubs'[s])] = own'[s]
              /\ newest'[s] = "out" => retained'[s] = own'[s]
  <2>1. CASE s = h
    <3>1. pubs'[s] = Append(pubs[h], l) /\ own'[s] = l /\ newest'[s] = "pending"
      BY <1>1, <1>2, <1>3, <1>5, <1>7, <2>1
    <3> QED
      BY <3>1, <1>8
  <2>2. CASE s # h
    <3>1. pubs'[s] = pubs[s] /\ own'[s] = own[s] /\ newest'[s] = newest[s]
      BY <1>2, <1>3, <1>5, <1>7, <2>2
    <3> QED
      BY <3>1 DEF RegistryInv, LatestSaysOwn
  <2> QED
    BY <2>1, <2>2
<1> QED
  BY <1>6, <1>9, <1>10, <1>11 DEF LatestSaysOwn

LEMMA ConnectionsOK ==
  ASSUME RegistryInv, NEW w \in Workers,
         ClientConnected(w) \/ Subscribe(w) \/ SyncHandlers(w) \/ ClientDisconnected(w)
  PROVE  RegistryInv'
<1>1. /\ alive' \in SUBSET Servers
      /\ link' \in [Workers -> {"down", "open", "up", "dead"}]
      /\ hello' \in SUBSET Workers
      /\ faults' \in 0..MaxFaults
      /\ retained' = retained /\ known' = known
  BY DEF RegistryInv, RegistryTypeOK, ClientConnected, Subscribe, SyncHandlers, ClientDisconnected
<1>2. \/ Announce(Home[w], w, "new") \/ Announce(Home[w], w, "ready") \/ Announce(Home[w], w, "absent")
      \/ UNCHANGED <<own, pubs, newest>>
  BY DEF ClientConnected, Subscribe, SyncHandlers, ClientDisconnected
<1>3. /\ own' \in [Servers -> Listing] /\ \A s \in Servers : own'[s] \in ListingOf(s)
      /\ pubs' \in [Servers -> Seq(Listing)] /\ \A s \in Servers : pubs'[s] \in Seq(ListingOf(s))
      /\ newest' \in [Servers -> {"none", "pending", "out", "overtaken"}]
      /\ LatestSaysOwn'
      /\ \A s \in Servers : newest'[s] = "out" => retained'[s] = own'[s]
  <2>1. CASE UNCHANGED <<own, pubs, newest>>
    BY <1>1, <2>1 DEF RegistryInv, RegistryTypeOK, LatestSaysOwn
  <2>2. CASE \/ Announce(Home[w], w, "new") \/ Announce(Home[w], w, "ready")
             \/ Announce(Home[w], w, "absent")
    BY <1>1, <2>2, AnnounceOK
  <2> QED
    BY <1>2, <2>1, <2>2
<1>4. /\ retained' \in [Servers -> Listing \cup {NoList}]
      /\ \A s \in Servers : retained'[s] \in ListingOf(s) \cup {NoList}
      /\ known' \in [Servers -> [Servers -> Listing \cup {NoList}]]
      /\ \A s, t \in Servers : known'[t][s] \in ListingOf(s) \cup {NoList}
  BY <1>1 DEF RegistryInv, RegistryTypeOK
<1>5. RegistryTypeOK'
  BY <1>1, <1>3, <1>4 DEF RegistryTypeOK
<1> QED
  BY <1>3, <1>5 DEF RegistryInv

LEMMA PublishOK ==
  ASSUME RegistryInv, NEW s \in Servers, NEW i \in 1..Len(pubs[s]), Publish(s, i)
  PROVE  RegistryInv'
<1>1. /\ pubs[s] \in Seq(ListingOf(s)) /\ pubs[s] \in Seq(Listing)
      /\ pubs \in [Servers -> Seq(Listing)]
      /\ retained \in [Servers -> Listing \cup {NoList}]
      /\ newest \in [Servers -> {"none", "pending", "out", "overtaken"}]
  BY DEF RegistryInv, RegistryTypeOK
<1>2. pubs[s][i] \in ListingOf(s) /\ pubs[s][i] \in Listing
  BY <1>1 DEF ListingOf
<1> DEFINE q == RemoveAt(pubs[s], i)
<1>3. /\ q \in Seq(ListingOf(s)) /\ q \in Seq(Listing)
      /\ i < Len(pubs[s]) => q # <<>> /\ q[Len(q)] = pubs[s][Len(pubs[s])]
  BY <1>1, RemoveAtFacts
<1>4. /\ pubs' = [pubs EXCEPT ![s] = q]
      /\ retained' = [retained EXCEPT ![s] = pubs[s][i]]
      /\ newest' = [newest EXCEPT ![s] = Overtaken(s, i)]
      /\ UNCHANGED <<alive, link, hello, own, known, faults>>
  BY DEF Publish
<1> HIDE DEF q
<1>5. Overtaken(s, i) \in {"pending", "out", "overtaken"}
  BY DEF Overtaken
<1>6. /\ pubs' \in [Servers -> Seq(Listing)]
      /\ \A t \in Servers : pubs'[t] \in Seq(ListingOf(t))
  BY <1>1, <1>3, <1>4 DEF RegistryInv, RegistryTypeOK
<1>7. /\ retained' \in [Servers -> Listing \cup {NoList}]
      /\ \A t \in Servers : retained'[t] \in ListingOf(t) \cup {NoList}
  BY <1>1, <1>2, <1>4 DEF RegistryInv, RegistryTypeOK
<1>8. newest' \in [Servers -> {"none", "pending", "out", "overtaken"}]
  BY <1>1, <1>4, <1>5
<1>9. RegistryTypeOK'
  BY <1>4, <1>6, <1>7, <1>8 DEF RegistryInv, RegistryTypeOK
<1>10. ASSUME NEW t \in Servers
       PROVE  /\ newest'[t] = "pending" => pubs'[t] # <<>> /\ pubs'[t][Len(pubs'[t])] = own'[t]
              /\ newest'[t] = "out" => retained'[t] = own'[t]
  <2>1. CASE t = s
    <3>1. /\ newest'[t] = Overtaken(s, i) /\ pubs'[t] = q /\ retained'[t] = pubs[s][i]
          /\ own'[t] = own[s]
      BY <1>1, <1>4, <2>1
    <3>2. CASE newest[s] = "pending"
      <4>1. pubs[s][Len(pubs[s])] = own[s]
        BY <3>2 DEF RegistryInv, LatestSaysOwn
      <4>2. CASE i = Len(pubs[s])
        <5>1. Overtaken(s, i) = "out"
          BY <1>1, <3>2, <4>2 DEF Overtaken
        <5> QED
          BY <3>1, <4>1, <4>2, <5>1
      <4>3. CASE i < Len(pubs[s])
        <5>1. Overtaken(s, i) = "pending"
          BY <1>1, <3>2, <4>3 DEF Overtaken
        <5> QED
          BY <1>3, <3>1, <4>1, <4>3, <5>1
      <4> QED
        BY <4>2, <4>3, <1>1
    <3>3. CASE newest[s] # "pending"
      BY <3>1, <3>3 DEF Overtaken
    <3> QED
      BY <3>2, <3>3
  <2>2. CASE t # s
    <3>1. newest'[t] = newest[t] /\ pubs'[t] = pubs[t] /\ retained'[t] = retained[t] /\ own'[t] = own[t]
      BY <1>1, <1>4, <2>2
    <3> QED
      BY <3>1 DEF RegistryInv, LatestSaysOwn
  <2> QED
    BY <2>1, <2>2
<1> QED
  BY <1>9, <1>10 DEF RegistryInv, LatestSaysOwn

LEMMA ReceiveOK ==
  ASSUME RegistryInv, NEW s \in Servers, NEW t \in Servers, Receive(t, s)
  PROVE  RegistryInv'
<1>1. /\ retained[s] \in ListingOf(s) \cup {NoList} /\ retained[s] \in Listing \cup {NoList}
      /\ known \in [Servers -> [Servers -> Listing \cup {NoList}]]
  BY DEF RegistryInv, RegistryTypeOK
<1>2. /\ known' = [known EXCEPT ![t] = [known[t] EXCEPT ![s] = retained[s]]]
      /\ UNCHANGED <<alive, link, hello, own, pubs, retained, newest, faults>>
  BY DEF Receive
<1>3. known' \in [Servers -> [Servers -> Listing \cup {NoList}]]
  BY <1>1, <1>2
<1>4. \A x, y \in Servers : known'[y][x] \in ListingOf(x) \cup {NoList}
  BY <1>1, <1>2 DEF RegistryInv, RegistryTypeOK
<1>5. RegistryTypeOK'
  BY <1>2, <1>3, <1>4 DEF RegistryInv, RegistryTypeOK
<1> QED
  BY <1>2, <1>5 DEF RegistryInv, LatestSaysOwn

LEMMA ListStepOK == ASSUME RegistryInv, ListStep PROVE RegistryInv'
BY ConnectionsOK, PublishOK, ReceiveOK DEF ListStep

LEMMA FaultOK ==
  ASSUME RegistryInv, Fault, UNCHANGED <<own, pubs, retained, known, newest>>,
         alive' \in SUBSET Servers, link' \in [Workers -> {"down", "open", "up", "dead"}], hello' \in SUBSET Workers
  PROVE  RegistryInv'
<1>1. faults' \in 0..MaxFaults
  BY RegistryAssumption DEF Fault, RegistryInv, RegistryTypeOK
<1>2. RegistryTypeOK'
  BY <1>1 DEF RegistryInv, RegistryTypeOK
<1> QED
  BY <1>2 DEF RegistryInv, LatestSaysOwn

\* A list is published though nothing changed.
LEMMA OtherDisconnectedOK ==
  ASSUME RegistryInv, NEW s \in Servers, OtherDisconnected(s)
  PROVE  RegistryInv'
<1>1. faults' \in 0..MaxFaults
  BY RegistryAssumption DEF OtherDisconnected, Fault, RegistryInv, RegistryTypeOK
<1>2. /\ own[s] \in ListingOf(s) /\ own[s] \in Listing
      /\ pubs[s] \in Seq(ListingOf(s)) /\ pubs[s] \in Seq(Listing)
      /\ pubs \in [Servers -> Seq(Listing)]
      /\ newest \in [Servers -> {"none", "pending", "out", "overtaken"}]
  BY DEF RegistryInv, RegistryTypeOK
<1> DEFINE q == Append(pubs[s], own[s])
<1>3. q \in Seq(ListingOf(s)) /\ q \in Seq(Listing) /\ q # <<>> /\ q[Len(q)] = own[s]
  BY <1>2, AppendProperties
<1>4. /\ pubs' = [pubs EXCEPT ![s] = q] /\ newest' = [newest EXCEPT ![s] = "pending"]
      /\ UNCHANGED <<alive, link, hello, own, retained, known>>
  BY DEF OtherDisconnected
<1> HIDE DEF q
<1>5. /\ pubs' \in [Servers -> Seq(Listing)] /\ \A t \in Servers : pubs'[t] \in Seq(ListingOf(t))
      /\ newest' \in [Servers -> {"none", "pending", "out", "overtaken"}]
  BY <1>2, <1>3, <1>4 DEF RegistryInv, RegistryTypeOK
<1>6. RegistryTypeOK'
  BY <1>1, <1>4, <1>5 DEF RegistryInv, RegistryTypeOK
<1>7. \A t \in Servers :
        IF t = s THEN pubs'[t] = q /\ newest'[t] = "pending"
        ELSE pubs'[t] = pubs[t] /\ newest'[t] = newest[t]
  BY <1>2, <1>4
<1> QED
  BY <1>3, <1>4, <1>6, <1>7 DEF RegistryInv, LatestSaysOwn

\* A list is lost: the one serialised last either was not this one, or is under way no more.
LEMMA PublishFailsOK ==
  ASSUME RegistryInv, NEW s \in Servers, NEW i \in 1..Len(pubs[s]), PublishFails(s, i)
  PROVE  RegistryInv'
<1>1. faults' \in 0..MaxFaults
  BY RegistryAssumption DEF PublishFails, Fault, RegistryInv, RegistryTypeOK
<1>2. /\ pubs[s] \in Seq(ListingOf(s)) /\ pubs[s] \in Seq(Listing)
      /\ pubs \in [Servers -> Seq(Listing)]
      /\ newest \in [Servers -> {"none", "pending", "out", "overtaken"}]
  BY DEF RegistryInv, RegistryTypeOK
<1> DEFINE q == RemoveAt(pubs[s], i)
           n == IF newest[s] = "pending" /\ i = Len(pubs[s]) THEN "overtaken" ELSE newest[s]
<1>3. /\ q \in Seq(ListingOf(s)) /\ q \in Seq(Listing)
      /\ i < Len(pubs[s]) => q # <<>> /\ q[Len(q)] = pubs[s][Len(pubs[s])]
  BY <1>2, RemoveAtFacts
<1>4. n \in {"none", "pending", "out", "overtaken"}
  BY <1>2
<1>5. /\ n = "pending" => newest[s] = "pending" /\ i < Len(pubs[s])
      /\ n = "out" => newest[s] = "out"
  BY <1>2
<1>6. /\ pubs' = [pubs EXCEPT ![s] = q] /\ newest' = [newest EXCEPT ![s] = n]
      /\ UNCHANGED <<alive, link, hello, own, retained, known>>
  BY <1>2 DEF PublishFails
<1> HIDE DEF q, n
<1>7. /\ pubs' \in [Servers -> Seq(Listing)] /\ \A t \in Servers : pubs'[t] \in Seq(ListingOf(t))
      /\ newest' \in [Servers -> {"none", "pending", "out", "overtaken"}]
  BY <1>2, <1>3, <1>4, <1>6 DEF RegistryInv, RegistryTypeOK
<1>8. RegistryTypeOK'
  BY <1>1, <1>6, <1>7 DEF RegistryInv, RegistryTypeOK
<1>9. \A t \in Servers :
        IF t = s THEN pubs'[t] = q /\ newest'[t] = n
        ELSE pubs'[t] = pubs[t] /\ newest'[t] = newest[t]
  BY <1>2, <1>6
<1> QED
  BY <1>3, <1>5, <1>6, <1>8, <1>9 DEF RegistryInv, LatestSaysOwn

LEMMA HandlersLostOK ==
  ASSUME RegistryInv, NEW w \in Workers, HandlersLost(w)
  PROVE  RegistryInv'
<1>1. /\ link' \in [Workers -> {"down", "open", "up", "dead"}] /\ hello' \in SUBSET Workers
      /\ alive' \in SUBSET Servers
  BY DEF HandlersLost, RegistryInv, RegistryTypeOK
<1> QED
  BY <1>1, FaultOK DEF HandlersLost

LEMMA ListFaultOK == ASSUME RegistryInv, ListFault PROVE RegistryInv'
BY OtherDisconnectedOK, PublishFailsOK, HandlersLostOK DEF ListFault

LEMMA DisconnectOK ==
  ASSUME RegistryInv, NEW w \in Workers, NEW how \in {"down", "dead"}, Disconnect(w, how)
  PROVE  RegistryInv'
<1>1. /\ link' \in [Workers -> {"down", "open", "up", "dead"}] /\ hello' \in SUBSET Workers
      /\ alive' \in SUBSET Servers
  BY DEF Disconnect, RegistryInv, RegistryTypeOK
<1> QED
  BY <1>1, FaultOK DEF Disconnect

LEMMA KillOK ==
  ASSUME RegistryInv, NEW s \in Servers, Kill(s)
  PROVE  RegistryInv'
<1>1. faults' \in 0..MaxFaults
  BY RegistryAssumption DEF Kill, Fault, RegistryInv, RegistryTypeOK
<1>2. /\ alive' \in SUBSET Servers /\ hello' \in SUBSET Workers
      /\ link' \in [Workers -> {"down", "open", "up", "dead"}]
      /\ newest' \in [Servers -> {"none", "pending", "out", "overtaken"}]
  BY DEF Kill, RegistryInv, RegistryTypeOK
<1>3. /\ own' = [own EXCEPT ![s] = NoClients] /\ pubs' = [pubs EXCEPT ![s] = <<>>]
      /\ retained' = [retained EXCEPT ![s] = NoList]
      /\ known' = [known EXCEPT ![s] = [t \in Servers |-> NoList]]
      /\ newest' = [newest EXCEPT ![s] = "none"]
  BY DEF Kill
<1>4. own' \in [Servers -> Listing] /\ \A t \in Servers : own'[t] \in ListingOf(t)
  BY <1>3, NoClientsFacts DEF RegistryInv, RegistryTypeOK
<1>5. pubs' \in [Servers -> Seq(Listing)] /\ \A t \in Servers : pubs'[t] \in Seq(ListingOf(t))
  <2>1. <<>> \in Seq(Listing) /\ <<>> \in Seq(ListingOf(s))
    OBVIOUS
  <2> QED
    BY <1>3, <2>1 DEF RegistryInv, RegistryTypeOK
<1>6. /\ retained' \in [Servers -> Listing \cup {NoList}]
      /\ \A t \in Servers : retained'[t] \in ListingOf(t) \cup {NoList}
  BY <1>3 DEF RegistryInv, RegistryTypeOK
<1>7. /\ known' \in [Servers -> [Servers -> Listing \cup {NoList}]]
      /\ \A x, t \in Servers : known'[t][x] \in ListingOf(x) \cup {NoList}
  BY <1>3 DEF RegistryInv, RegistryTypeOK
<1>8. RegistryTypeOK'
  BY <1>1, <1>2, <1>4, <1>5, <1>6, <1>7 DEF RegistryTypeOK
<1>9. \A t \in Servers : t = s \/ (own'[t] = own[t] /\ pubs'[t] = pubs[t] /\ retained'[t] = retained[t]
                                   /\ newest'[t] = newest[t])
  BY <1>3 DEF RegistryInv, RegistryTypeOK
<1>10. newest'[s] = "none"
  BY <1>3 DEF RegistryInv, RegistryTypeOK
<1> QED
  BY <1>8, <1>9, <1>10 DEF RegistryInv, LatestSaysOwn

LEMMA StartOK ==
  ASSUME RegistryInv, NEW s \in Servers, Start(s)
  PROVE  RegistryInv'
BY DEF Start, RegistryInv, RegistryTypeOK, LatestSaysOwn

LEMMA RegistryStutterOK == ASSUME RegistryInv, UNCHANGED registryVars PROVE RegistryInv'
BY DEF registryVars, RegistryInv, RegistryTypeOK, LatestSaysOwn

LEMMA RegistryStepOK == ASSUME RegistryInv, [RegistryNext]_registryVars PROVE RegistryInv'
BY ListStepOK, ListFaultOK, DisconnectOK, KillOK, StartOK, RegistryStutterOK DEF RegistryNext

-----------------------------------------------------------------------------
\* Every list announced, retained or received is one of the executors that are
\* configured for the server it is about.
THEOREM RegistryTypeCorrect == RegistrySpec => []RegistryTypeOK
<1>1. RegistryInv => RegistryTypeOK
  BY DEF RegistryInv
<1> QED
  BY <1>1, RegistryInitOK, RegistryStepOK, PTL DEF RegistrySpec

\* A broker whose server has got its latest list out last retains what the server has.
THEOREM RetainedCorrect == RegistrySpec => []RetainedIsCurrent
<1>1. RegistryInv => RetainedIsCurrent
  BY DEF RegistryInv, RegistryTypeOK, RetainedIsCurrent
<1> QED
  BY <1>1, RegistryInitOK, RegistryStepOK, PTL DEF RegistrySpec

-----------------------------------------------------------------------------

Handling(c) == call[c].pc \in {"publish", "read", "write"}

\* Nothing names a row that does not exist.
RowsExist ==
  /\ \A c \in Calls : call[c].task \in DOMAIN logs \cup {Job}
  /\ \A c \in Calls : Handling(c) => call[c].task \in DOMAIN logs
  /\ \A m \in proxies : m.row \in DOMAIN logs
  /\ \A m \in onjobs : m.row \in DOMAIN logs
  /\ \A m \in results : m.row \in DOMAIN logs
  /\ \A w \in Workers : todo[w] \subseteq DOMAIN logs /\ running[w] \subseteq DOMAIN logs
  /\ \A s \in Servers : rec[s].pc = "write" => rec[s].row \in DOMAIN logs
  /\ started \subseteq DOMAIN logs

\* A call has a server, and past AddTask an executor and a row of its own.
CallsOK ==
  /\ \A c \in Calls : call[c].pc # "idle" => call[c].at \in Servers
  /\ \A c \in Calls : Handling(c) => call[c].to \in Workers /\ call[c].to = logs[call[c].task].client
  /\ \A c, d \in Calls : Handling(c) /\ Handling(d) /\ c # d => call[c].task # call[d].task

\* A row that is not started yet is named once, with its executor.
NamedOnce ==
  /\ \A c \in Calls : call[c].pc = "publish" =>
       /\ call[c].task \notin started
       /\ \A m \in proxies \cup onjobs : m.row # call[c].task
       /\ \A w \in Workers : call[c].task \notin todo[w]
  /\ \A m \in proxies \cup onjobs :
       /\ m.row \notin started
       /\ m.to = logs[m.row].client
       /\ \A w \in Workers : m.row \notin todo[w]
  /\ \A m \in proxies, o \in onjobs : m.row # o.row
  /\ \A m, o \in proxies : m.row = o.row => m = o
  /\ \A m, o \in onjobs : m.row = o.row => m = o
  /\ \A w \in Workers : \A r \in todo[w] : r \notin started /\ logs[r].client = w

Reported(r) == \E a \in answered : a[1] = r /\ a[2] = logs[r].client

\* What was read of a row.
ReadOf(x, r) ==
  /\ x \in LogRow
  /\ x.task = logs[r].task
  /\ x.client = logs[r].client
  /\ x.result = "reported" => Reported(r)

ReadsOK ==
  /\ \A c \in Calls : call[c].pc = "write" => ReadOf(call[c].seen, call[c].task)
  /\ \A s \in Servers : rec[s].pc = "write" =>
       /\ ReadOf(rec[s].seen, rec[s].row)
       /\ <<rec[s].row, logs[rec[s].row].client, rec[s].status>> \in answered

\* What runs and what is answered is of the executor of the row.
AnswersOK ==
  /\ \A w \in Workers : \A r \in running[w] : logs[r].client = w
  /\ \A m \in results : logs[m.row].client = m.by /\ <<m.row, m.by, m.status>> \in answered

\* The part of TypeOK that is not of the registry.
TaskTypes ==
  /\ logs \in Seq(LogRow) /\ Len(logs) <= MaxLogs
  /\ call \in [Calls -> CallState]
  /\ proxies \in SUBSET [row : Rows, to : Workers, from : Servers]
  /\ onjobs \in SUBSET [row : Rows, to : Workers]
  /\ todo \in [Workers -> SUBSET Rows]
  /\ running \in [Workers -> SUBSET Rows]
  /\ results \in SUBSET Answer
  /\ rec \in [Servers -> RecordState]
  /\ started \in SUBSET Rows /\ gone \in SUBSET Rows /\ undone \in SUBSET Rows
  /\ answered \in SUBSET (Rows \X Workers \X {SUCCESS, FAIL})

\* What the registry has no part in.
TaskInv ==
  /\ TaskTypes
  /\ RowsExist
  /\ CallsOK
  /\ NamedOnce
  /\ ReadsOK
  /\ AnswersOK
  /\ ResultFromItsExecutor

Inv == RegistryInv /\ TaskInv

-----------------------------------------------------------------------------
LEMMA TaskInitOK == TaskInit => TaskInv
<1> SUFFICES ASSUME TaskInit
             PROVE  TaskInv
  OBVIOUS
<1>1. TaskTypes
  <2>1. <<>> \in Seq(LogRow) /\ Len(<<>>) = 0 /\ MaxLogs \in Nat
    BY TaskRunAssumption
  <2>2. Idle \in CallState
    BY DEF Idle, CallState
  <2>3. NoRecord \in RecordState
    BY <2>1 DEF NoRecord, RecordState, SUCCESS, FAIL
  <2> QED
    BY <2>1, <2>2, <2>3 DEF TaskInit, TaskTypes
<1>2. RowsExist /\ CallsOK /\ NamedOnce /\ ReadsOK /\ AnswersOK
  BY DEF TaskInit, RowsExist, CallsOK, NamedOnce, ReadsOK, AnswersOK, Handling, Idle, NoRecord
<1>3. ResultFromItsExecutor
  BY DEF TaskInit, ResultFromItsExecutor
<1> QED
  BY <1>1, <1>2, <1>3 DEF TaskInv

LEMMA AppendFacts ==
  ASSUME NEW Row, NEW x \in Row, logs \in Seq(Row), logs' = Append(logs, x)
  PROVE  /\ logs' \in Seq(Row)
         /\ Len(logs') = Len(logs) + 1
         /\ \A i \in 1..Len(logs) : logs'[i] = logs[i]
         /\ logs'[Len(logs) + 1] = x
OBVIOUS

LEMMA IntervalFacts ==
  ASSUME NEW n \in Nat, NEW m \in Nat, n < m
  PROVE  /\ 1..(n + 1) = 1..n \cup {n + 1}
         /\ n + 1 \notin 1..n
         /\ n + 1 \in 1..m
         /\ n + 1 <= m
OBVIOUS

\* A row is inserted at the end ...
LEMMA InsertFacts ==
  ASSUME TaskTypes, NEW task \in Rows \cup {Job}, NEW client \in Workers \cup {Nobody},
         NEW status \in {PROCESS, FAIL}, NEW result \in {"none", "offline", "unsupported"},
         Insert(task, client, status, result)
  PROVE  /\ logs' \in Seq(LogRow) /\ Len(logs') <= MaxLogs
         /\ Len(logs') = Len(logs) + 1
         /\ Len(logs) + 1 \in Rows
         /\ DOMAIN logs = 1..Len(logs) /\ DOMAIN logs' = DOMAIN logs \cup {Len(logs) + 1}
         /\ Len(logs) + 1 \notin DOMAIN logs
         /\ \A r \in DOMAIN logs : logs'[r] = logs[r]
         /\ logs'[Len(logs) + 1] = [task |-> task, client |-> client, status |-> status, result |-> result]
<1> DEFINE x == [task |-> task, client |-> client, status |-> status, result |-> result]
<1>1. x \in LogRow
  BY DEF LogRow, PROCESS, SUCCESS, FAIL
<1>2. logs \in Seq(LogRow) /\ Len(logs) < MaxLogs /\ logs' = Append(logs, x) /\ MaxLogs \in Nat
  BY TaskRunAssumption DEF TaskTypes, Insert
<1> HIDE DEF x
<1>3. /\ logs' \in Seq(LogRow) /\ Len(logs') = Len(logs) + 1
      /\ \A r \in 1..Len(logs) : logs'[r] = logs[r]
      /\ logs'[Len(logs) + 1] = x
  BY <1>1, <1>2, AppendFacts
<1>4. DOMAIN logs = 1..Len(logs) /\ DOMAIN logs' = 1..(Len(logs) + 1) /\ Len(logs) \in Nat
  <2>1. DOMAIN logs = 1..Len(logs) /\ Len(logs) \in Nat
    BY <1>2, LenProperties
  <2>2. DOMAIN logs' = 1..Len(logs')
    BY <1>3, LenProperties
  <2> QED
    BY <1>3, <2>1, <2>2
<1>5. /\ 1..(Len(logs) + 1) = 1..Len(logs) \cup {Len(logs) + 1} /\ Len(logs) + 1 \notin 1..Len(logs)
      /\ Len(logs) + 1 \in 1..MaxLogs /\ Len(logs) + 1 <= MaxLogs
  BY <1>2, <1>4, IntervalFacts
<1> QED
  BY <1>3, <1>4, <1>5, Zenon DEF x, Rows

\* ... and updated where it is.
LEMMA UpdateFacts ==
  ASSUME TaskTypes, NEW r \in DOMAIN logs, NEW x \in LogRow, logs' = [logs EXCEPT ![r] = x]
  PROVE  /\ logs' \in Seq(LogRow) /\ Len(logs') <= MaxLogs
         /\ DOMAIN logs' = DOMAIN logs
         /\ logs'[r] = x
         /\ \A o \in DOMAIN logs : o # r => logs'[o] = logs[o]
         /\ r \in Rows
<1>1. logs \in Seq(LogRow) /\ Len(logs) <= MaxLogs /\ MaxLogs \in Nat /\ DOMAIN logs = 1..Len(logs)
  BY TaskRunAssumption DEF TaskTypes
<1>2. logs' \in Seq(LogRow) /\ Len(logs') = Len(logs)
  BY <1>1, ExceptSeq
<1> QED
  BY <1>1, <1>2 DEF Rows

-----------------------------------------------------------------------------
LEMMA RowFacts ==
  ASSUME TaskTypes
  PROVE  /\ DOMAIN logs \subseteq Rows
         /\ \A r \in DOMAIN logs : logs[r] \in LogRow
<1>1. logs \in Seq(LogRow) /\ Len(logs) <= MaxLogs /\ MaxLogs \in Nat /\ DOMAIN logs = 1..Len(logs)
  BY TaskRunAssumption DEF TaskTypes
<1> QED
  BY <1>1 DEF Rows

\* Calls end, messages and what is queued or runs are lost: nothing new is named.
LEMMA LoseOK ==
  ASSUME TaskInv, UNCHANGED <<logs, started, answered, undone>>,
         call' \in [Calls -> CallState], \A c \in Calls : call'[c] \in {call[c], Idle},
         rec' \in [Servers -> RecordState], \A s \in Servers : rec'[s] \in {rec[s], NoRecord},
         proxies' \subseteq proxies, onjobs' \subseteq onjobs, results' \subseteq results,
         todo' \in [Workers -> SUBSET Rows], \A w \in Workers : todo'[w] \subseteq todo[w],
         running' \in [Workers -> SUBSET Rows], \A w \in Workers : running'[w] \subseteq running[w],
         gone' \in SUBSET Rows
  PROVE  TaskInv'
<1> USE DEF TaskInv
<1>1. TaskTypes'
  BY DEF TaskTypes
<1>2. \A c \in Calls : call'[c] = call[c] \/ (call'[c].pc = "idle" /\ call'[c].task = Job)
  <2>1. Idle.pc = "idle" /\ Idle.task = Job
    BY DEF Idle
  <2> QED
    BY <2>1
<1>3. \A s \in Servers : rec'[s] = rec[s] \/ rec'[s].pc = "idle"
  BY DEF NoRecord
<1>4. RowsExist'
  BY <1>2, <1>3 DEF RowsExist, Handling
<1>5. CallsOK'
  BY <1>2 DEF CallsOK, Handling
<1>6. NamedOnce'
  BY <1>2 DEF NamedOnce
<1>7. ReadsOK'
  BY <1>2, <1>3 DEF ReadsOK, ReadOf, Reported
<1>8. AnswersOK' /\ ResultFromItsExecutor'
  BY DEF AnswersOK, ResultFromItsExecutor
<1> QED
  BY <1>1, <1>4, <1>5, <1>6, <1>7, <1>8

LEMMA PublishTaskOK ==
  ASSUME TaskInv, NEW c \in Calls, PublishTask(c)
  PROVE  TaskInv'
<1> USE DEF TaskInv
<1> DEFINE r == call[c].task
           w == call[c].to
<1>1. call[c].pc = "publish" /\ r \in DOMAIN logs /\ w \in Workers /\ call[c].at \in Servers
      /\ w = logs[r].client /\ r \in Rows
  BY RowFacts DEF PublishTask, RowsExist, CallsOK, Handling
<1>2. PICK k \in 0..2 : call' = [call EXCEPT ![c].pc = "read", ![c].marks = k]
  BY DEF PublishTask
<1>3. /\ \A d \in Calls : d # c => call'[d] = call[d]
      /\ call'[c].pc = "read" /\ call'[c].task = r /\ call'[c].to = w /\ call'[c].at = call[c].at
      /\ call' \in [Calls -> CallState]
  <2>1. call[c] \in CallState /\ call \in [Calls -> CallState]
    BY DEF TaskTypes
  <2>2. \A d \in Calls : d # c => call'[d] = call[d]
    BY <1>2, <2>1
  <2>3. call'[c].pc = "read" /\ call'[c].task = r /\ call'[c].to = w /\ call'[c].at = call[c].at
    BY <1>2, <2>1 DEF CallState
  <2>4. call' \in [Calls -> CallState]
    BY <1>2, <2>1 DEF CallState
  <2> QED
    BY <2>2, <2>3, <2>4
<1>4. \/ onjobs' = onjobs \cup {[row |-> r, to |-> w]} /\ proxies' = proxies
      \/ proxies' = proxies \cup {[row |-> r, to |-> w, from |-> call[c].at]} /\ onjobs' = onjobs
  BY DEF PublishTask
<1>5. UNCHANGED <<logs, todo, running, results, rec, started, answered, gone, undone>>
  BY DEF PublishTask
<1>6. TaskTypes'
  BY <1>1, <1>3, <1>4, <1>5 DEF TaskTypes
<1>7. RowsExist'
  BY <1>1, <1>3, <1>4, <1>5 DEF RowsExist, Handling
<1>8. CallsOK'
  BY <1>1, <1>3, <1>5 DEF CallsOK, Handling
<1>9. NamedOnce'
  <2>1. /\ r \notin started
        /\ \A m \in proxies \cup onjobs : m.row # r
        /\ \A x \in Workers : r \notin todo[x]
    BY <1>1 DEF NamedOnce
  <2>2. \A d \in Calls : call'[d].pc = "publish" => d # c /\ call[d].pc = "publish" /\ call[d].task # r
    BY <1>1, <1>3 DEF CallsOK, Handling
  <2> HIDE DEF r, w
  <2>3. CASE onjobs' = onjobs \cup {[row |-> r, to |-> w]} /\ proxies' = proxies
    BY <1>1, <1>3, <1>5, <2>1, <2>2, <2>3 DEF NamedOnce
  <2>4. CASE proxies' = proxies \cup {[row |-> r, to |-> w, from |-> call[c].at]} /\ onjobs' = onjobs
    BY <1>1, <1>3, <1>5, <2>1, <2>2, <2>4 DEF NamedOnce
  <2> QED
    BY <1>4, <2>3, <2>4
<1>10. ReadsOK'
  BY <1>1, <1>3, <1>5 DEF ReadsOK, ReadOf, Reported
<1>11. AnswersOK' /\ ResultFromItsExecutor'
  BY <1>5 DEF AnswersOK, ResultFromItsExecutor
<1> QED
  BY <1>6, <1>7, <1>8, <1>9, <1>10, <1>11

LEMMA ReadFlagOK ==
  ASSUME TaskInv, NEW c \in Calls, ReadFlag(c)
  PROVE  TaskInv'
<1> USE DEF TaskInv
<1> DEFINE r == call[c].task
<1>1. /\ call[c].pc = "read" /\ r \in DOMAIN logs /\ logs[r] \in LogRow
      /\ call' = [call EXCEPT ![c].pc = "write", ![c].seen = logs[r]]
      /\ UNCHANGED <<logs, proxies, onjobs, todo, running, results, rec, started, answered, gone, undone>>
  BY RowFacts DEF ReadFlag, RowsExist, Handling
<1>2. /\ \A d \in Calls : d # c => call'[d] = call[d]
      /\ call'[c].pc = "write" /\ call'[c].task = r /\ call'[c].to = call[c].to
      /\ call'[c].at = call[c].at /\ call'[c].seen = logs[r]
      /\ call' \in [Calls -> CallState]
  <2>1. call[c] \in CallState /\ call \in [Calls -> CallState]
    BY DEF TaskTypes
  <2>2. \A d \in Calls : d # c => call'[d] = call[d]
    BY <1>1, <2>1
  <2>3. /\ call'[c].pc = "write" /\ call'[c].task = r /\ call'[c].to = call[c].to
        /\ call'[c].at = call[c].at /\ call'[c].seen = logs[r]
    BY <1>1, <2>1 DEF CallState
  <2>4. call' \in [Calls -> CallState]
    BY <1>1, <2>1 DEF CallState
  <2> QED
    BY <2>2, <2>3, <2>4
<1>3. TaskTypes'
  BY <1>1, <1>2 DEF TaskTypes
<1>4. RowsExist' /\ CallsOK'
  BY <1>1, <1>2 DEF RowsExist, CallsOK, Handling
<1>5. NamedOnce'
  BY <1>1, <1>2 DEF NamedOnce
<1>6. ReadsOK'
  <2>1. ReadOf(call'[c].seen, call'[c].task)
    <3>1. logs[r].result = "reported" => Reported(r)
      BY <1>1 DEF ResultFromItsExecutor, Reported
    <3>2. ReadOf(logs[r], r)
      BY <1>1, <3>1 DEF ReadOf
    <3> QED
      BY <1>2, <3>2
  <2>3. \A d \in Calls : d # c /\ call'[d].pc = "write" => ReadOf(call'[d].seen, call'[d].task)
    BY <1>2 DEF ReadsOK
  <2>4. UNCHANGED <<logs, answered, rec>>
    BY <1>1
  <2>5. \A s \in Servers : rec[s].pc = "write" =>
          /\ ReadOf(rec[s].seen, rec[s].row)
          /\ <<rec[s].row, logs[rec[s].row].client, rec[s].status>> \in answered
    BY DEF ReadsOK
  <2> HIDE DEF TaskInv
  <2> QED
    BY <1>2, <2>1, <2>3, <2>4, <2>5 DEF ReadsOK, ReadOf, Reported
<1>7. AnswersOK' /\ ResultFromItsExecutor'
  BY <1>1 DEF AnswersOK, ResultFromItsExecutor
<1> QED
  BY <1>3, <1>4, <1>5, <1>6, <1>7

LEMMA ProxyOK ==
  ASSUME TaskInv, NEW m \in proxies, Proxy(m)
  PROVE  TaskInv'
<1> USE DEF TaskInv
<1>1. /\ proxies' = proxies \ {m} /\ onjobs' = onjobs \cup {[row |-> m.row, to |-> m.to]}
      /\ UNCHANGED <<logs, call, todo, running, results, rec, started, answered, gone, undone>>
  BY DEF Proxy
<1>2. m.row \in Rows /\ m.to \in Workers /\ m.row \in DOMAIN logs
  BY DEF TaskTypes, RowsExist
<1>3. TaskTypes' /\ RowsExist'
  BY <1>1, <1>2 DEF TaskTypes, RowsExist, Handling
<1>4. NamedOnce'
  BY <1>1, <1>2 DEF NamedOnce
<1>5. CallsOK' /\ ReadsOK'
  BY <1>1 DEF CallsOK, Handling, ReadsOK, ReadOf, Reported
<1>6. AnswersOK' /\ ResultFromItsExecutor'
  BY <1>1 DEF AnswersOK, ResultFromItsExecutor
<1> QED
  BY <1>3, <1>4, <1>5, <1>6

LEMMA OnJobOK ==
  ASSUME TaskInv, NEW m \in onjobs, OnJob(m)
  PROVE  TaskInv'
<1> USE DEF TaskInv
<1>1. /\ onjobs' = onjobs \ {m} /\ todo' = [todo EXCEPT ![m.to] = todo[m.to] \cup {m.row}]
      /\ UNCHANGED <<logs, call, proxies, running, results, rec, started, answered, gone, undone>>
  BY DEF OnJob
<1>2. m.row \in Rows /\ m.to \in Workers /\ m.row \in DOMAIN logs /\ todo \in [Workers -> SUBSET Rows]
  BY DEF TaskTypes, RowsExist
<1>3. /\ todo' \in [Workers -> SUBSET Rows]
      /\ \A w \in Workers : todo'[w] = IF w = m.to THEN todo[w] \cup {m.row} ELSE todo[w]
  BY <1>1, <1>2
<1>4. TaskTypes' /\ RowsExist'
  BY <1>1, <1>2, <1>3 DEF TaskTypes, RowsExist, Handling
<1>5. NamedOnce'
  BY <1>1, <1>2, <1>3 DEF NamedOnce
<1>6. CallsOK' /\ ReadsOK'
  BY <1>1 DEF CallsOK, Handling, ReadsOK, ReadOf, Reported
<1>7. AnswersOK' /\ ResultFromItsExecutor'
  BY <1>1 DEF AnswersOK, ResultFromItsExecutor
<1> QED
  BY <1>4, <1>5, <1>6, <1>7

LEMMA Timer_ElapsedOK ==
  ASSUME TaskInv, NEW w \in Workers, Timer_Elapsed(w)
  PROVE  TaskInv'
<1> USE DEF TaskInv
<1>1. /\ running' = [running EXCEPT ![w] = running[w] \cup todo[w]]
      /\ started' = started \cup todo[w]
      /\ todo' = [todo EXCEPT ![w] = {}]
      /\ UNCHANGED <<logs, call, proxies, onjobs, results, rec, answered, gone, undone>>
  BY DEF Timer_Elapsed
<1>2. todo \in [Workers -> SUBSET Rows] /\ running \in [Workers -> SUBSET Rows]
  BY DEF TaskTypes
<1>3. /\ todo' \in [Workers -> SUBSET Rows] /\ running' \in [Workers -> SUBSET Rows]
      /\ \A x \in Workers : todo'[x] = IF x = w THEN {} ELSE todo[x]
      /\ \A x \in Workers : running'[x] = IF x = w THEN running[x] \cup todo[x] ELSE running[x]
  BY <1>1, <1>2
<1>4. TaskTypes' /\ RowsExist'
  BY <1>1, <1>2, <1>3 DEF TaskTypes, RowsExist, Handling
<1>5. NamedOnce'
  BY <1>1, <1>2, <1>3 DEF NamedOnce
<1>6. AnswersOK'
  BY <1>1, <1>2, <1>3 DEF AnswersOK, NamedOnce
<1>7. CallsOK' /\ ReadsOK'
  BY <1>1 DEF CallsOK, Handling, ReadsOK, ReadOf, Reported
<1>8. ResultFromItsExecutor'
  BY <1>1 DEF ResultFromItsExecutor
<1> QED
  BY <1>4, <1>5, <1>6, <1>7, <1>8

LEMMA DoTaskAsyncOK ==
  ASSUME TaskInv, NEW w \in Workers, NEW r \in running[w], NEW status \in Outcomes[w],
         DoTaskAsync(w, r, status)
  PROVE  TaskInv'
<1> USE DEF TaskInv
<1> DEFINE m == [row |-> r, by |-> w, status |-> status]
<1>1. /\ running' = [running EXCEPT ![w] = running[w] \ {r}]
      /\ answered' = answered \cup {<<r, w, status>>}
      /\ UNCHANGED <<logs, call, proxies, onjobs, todo, rec, started, undone>>
  BY DEF DoTaskAsync
<1>2. /\ running \in [Workers -> SUBSET Rows] /\ r \in Rows /\ r \in DOMAIN logs /\ logs[r].client = w
      /\ status \in {SUCCESS, FAIL} /\ m \in Answer /\ <<r, w, status>> \in Rows \X Workers \X {SUCCESS, FAIL}
  BY TaskRunAssumption DEF TaskTypes, RowsExist, AnswersOK, Answer, SUCCESS, FAIL
<1>3. /\ running' \in [Workers -> SUBSET Rows]
      /\ \A x \in Workers : running'[x] \subseteq running[x]
  BY <1>1, <1>2
<1>4. results' \subseteq results \cup {m} /\ gone' \subseteq gone \cup {r}
  BY DEF DoTaskAsync
<1>5. m.row = r /\ m.by = w /\ m.status = status
  OBVIOUS
<1> HIDE DEF m
<1>6. TaskTypes'
  BY <1>1, <1>2, <1>3, <1>4 DEF TaskTypes
<1>7. RowsExist' /\ CallsOK' /\ NamedOnce'
  BY <1>1, <1>2, <1>3, <1>4, <1>5 DEF RowsExist, CallsOK, NamedOnce, Handling
<1>8. \A x \in answered : x \in answered'
  BY <1>1
<1>9. \A x \in DOMAIN logs : Reported(x) => Reported(x)'
  BY <1>1, <1>8 DEF Reported
<1>10. ReadsOK'
  <2>1. \A x \in LogRow, o \in DOMAIN logs : ReadOf(x, o) => ReadOf(x, o)'
    BY <1>1, <1>9 DEF ReadOf
  <2>2. ASSUME NEW c \in Calls, call'[c].pc = "write"
        PROVE  ReadOf(call[c].seen, call[c].task)'
    BY <1>1, <2>1, <2>2 DEF ReadsOK, RowsExist, Handling, ReadOf
  <2>3. ASSUME NEW s \in Servers, rec'[s].pc = "write"
        PROVE  ReadOf(rec[s].seen, rec[s].row)' /\ <<rec'[s].row, logs'[rec'[s].row].client, rec'[s].status>> \in answered'
    BY <1>1, <1>8, <2>1, <2>3 DEF ReadsOK, RowsExist, ReadOf
  <2> QED
    BY <2>2, <2>3 DEF ReadsOK
<1>11. AnswersOK'
  BY <1>1, <1>2, <1>3, <1>4, <1>5, <1>8 DEF AnswersOK
<1>12. ResultFromItsExecutor'
  BY <1>1, <1>8 DEF ResultFromItsExecutor
<1> QED
  BY <1>6, <1>7, <1>10, <1>11, <1>12

LEMMA ReadTaskOK ==
  ASSUME TaskInv, NEW s \in Servers, NEW m \in results, ReadTask(s, m)
  PROVE  TaskInv'
<1> USE DEF TaskInv
<1> DEFINE n == [pc |-> "write", row |-> m.row, status |-> m.status, seen |-> logs[m.row]]
<1>1. /\ results' = results \ {m}
      /\ rec' = [rec EXCEPT ![s] = n]
      /\ UNCHANGED <<logs, call, proxies, onjobs, todo, running, started, answered, gone, undone>>
  BY DEF ReadTask
<1>2. /\ m \in Answer /\ m.row \in Rows /\ m.status \in {SUCCESS, FAIL} /\ m.row \in DOMAIN logs
      /\ logs[m.row] \in LogRow /\ logs[m.row].client = m.by /\ <<m.row, m.by, m.status>> \in answered
      /\ rec \in [Servers -> RecordState]
  BY RowFacts DEF TaskTypes, RowsExist, AnswersOK, Answer
<1>3. n \in RecordState
  <2>1. m.row \in 0..MaxLogs
    BY <1>2, TaskRunAssumption DEF Rows
  <2> QED
    BY <1>2, <2>1 DEF RecordState
<1>4. n.pc = "write" /\ n.row = m.row /\ n.status = m.status /\ n.seen = logs[m.row]
  OBVIOUS
<1> HIDE DEF n
<1>5. rec' \in [Servers -> RecordState] /\ \A t \in Servers : rec'[t] = IF t = s THEN n ELSE rec[t]
  BY <1>1, <1>2, <1>3
<1>6. TaskTypes' /\ RowsExist'
  BY <1>1, <1>2, <1>4, <1>5 DEF TaskTypes, RowsExist, Handling
<1>7. CallsOK' /\ NamedOnce'
  BY <1>1 DEF CallsOK, NamedOnce, Handling
<1>8. ReadOf(logs[m.row], m.row)
  BY <1>2 DEF ReadOf, Reported, ResultFromItsExecutor
<1>9. ReadsOK'
  BY <1>1, <1>2, <1>4, <1>5, <1>8 DEF ReadsOK, ReadOf, Reported
<1>10. AnswersOK' /\ ResultFromItsExecutor'
  BY <1>1 DEF AnswersOK, ResultFromItsExecutor
<1> QED
  BY <1>6, <1>7, <1>9, <1>10

-----------------------------------------------------------------------------
\* A row is added, and perhaps a call has it in hand.
InsertStep(c, task, client, status, result) ==
  /\ Insert(task, client, status, result)
  /\ call' \in [Calls -> CallState]
  /\ \A d \in Calls : d # c => call'[d] = call[d]
  /\ \/ call'[c] = call[c]
     \/ /\ call'[c].pc = "publish" /\ call'[c].task = Len(logs) + 1
        /\ call'[c].to = client /\ client \in Workers /\ call'[c].at \in Servers
  /\ UNCHANGED <<proxies, onjobs, todo, running, results, rec, started, answered, gone, undone>>

LEMMA BelowNext ==
  ASSUME NEW n \in Nat, NEW Task, NEW x \in {Task} \cup 1..n
  PROVE  x = Task \/ x < n + 1
OBVIOUS

LEMMA InsertOK ==
  ASSUME TaskInv, NEW c \in Calls, NEW task \in {Job} \cup DOMAIN logs, NEW client \in Workers \cup {Nobody},
         NEW status, status = PROCESS \/ status = FAIL, NEW result \in {"none", "offline", "unsupported"},
         InsertStep(c, task, client, status, result)
  PROVE  TaskInv'
<1> USE DEF TaskInv
<1> DEFINE n == Len(logs) + 1
<1>1. task \in Rows \cup {Job}
  BY RowFacts
<1>2. /\ logs' \in Seq(LogRow) /\ Len(logs') <= MaxLogs
      /\ n \in Rows
      /\ DOMAIN logs' = DOMAIN logs \cup {n}
      /\ n \notin DOMAIN logs
      /\ \A r \in DOMAIN logs : logs'[r] = logs[r]
      /\ logs'[n] = [task |-> task, client |-> client, status |-> status, result |-> result]
  <2>1. TaskTypes /\ status \in {PROCESS, FAIL} /\ Insert(task, client, status, result)
    BY DEF InsertStep
  <2> HIDE DEF TaskInv
  <2> QED
    BY <1>1, <2>1, InsertFacts, ZenonT(40)
<1>4. task = Job \/ task < n
  <2>1. DOMAIN logs = 1..Len(logs) /\ Len(logs) \in Nat
    BY LenProperties DEF TaskTypes
  <2> QED
    BY <2>1, BelowNext
<1>5. \A d \in Calls : call'[d] = call[d] \/
        (/\ d = c /\ call'[d].pc = "publish" /\ call'[d].task = n
         /\ call'[d].to = client /\ client \in Workers /\ call'[d].at \in Servers)
  BY DEF InsertStep
<1>6. /\ UNCHANGED <<proxies, onjobs, todo, running, results, rec, started, answered, gone, undone>>
      /\ call' \in [Calls -> CallState]
  BY DEF InsertStep
<1> HIDE DEF n
<1>3. /\ logs'[n].task = task /\ logs'[n].client = client
      /\ logs'[n].result # "reported" /\ logs'[n].status # SUCCESS
  <2>1. status # SUCCESS
    BY DEF SUCCESS, PROCESS, FAIL
  <2>2. result # "reported"
    OBVIOUS
  <2>3. /\ logs'[n].task = task /\ logs'[n].client = client
        /\ logs'[n].result = result /\ logs'[n].status = status
    BY <1>2
  <2> QED
    BY <2>1, <2>2, <2>3
<1>7. TaskTypes'
  BY <1>2, <1>6 DEF TaskTypes
<1>8. RowsExist'
  BY <1>2, <1>5, <1>6 DEF RowsExist, Handling
<1>9. CallsOK'
  <2>1. \A d \in Calls : Handling(d) => call[d].task # n
    BY <1>2 DEF RowsExist, Handling
  <2> QED
    BY <1>2, <1>3, <1>5, <2>1 DEF CallsOK, RowsExist, Handling
<1>10. NamedOnce'
  <2>1. /\ n \notin started
        /\ \A m \in proxies \cup onjobs : m.row # n
        /\ \A w \in Workers : n \notin todo[w]
    BY <1>2 DEF RowsExist
  <2> QED
    BY <1>2, <1>5, <1>6, <2>1 DEF NamedOnce, RowsExist
<1>11. \A x \in LogRow, o \in DOMAIN logs : ReadOf(x, o) => ReadOf(x, o)'
  BY <1>2, <1>6 DEF ReadOf, Reported
<1>12. ReadsOK'
  <2>1. ASSUME NEW d \in Calls, call'[d].pc = "write"
        PROVE  ReadOf(call[d].seen, call[d].task)'
    BY <1>5, <1>11, <2>1 DEF ReadsOK, RowsExist, Handling, ReadOf
  <2>2. ASSUME NEW s \in Servers, rec'[s].pc = "write"
        PROVE  ReadOf(rec[s].seen, rec[s].row)' /\ <<rec'[s].row, logs'[rec'[s].row].client, rec'[s].status>> \in answered'
    BY <1>2, <1>6, <1>11, <2>2 DEF ReadsOK, RowsExist, ReadOf
  <2> QED
    BY <2>1, <2>2 DEF ReadsOK
<1>13. AnswersOK'
  BY <1>2, <1>6 DEF AnswersOK, RowsExist
<1>14. ResultFromItsExecutor'
  BY <1>2, <1>3, <1>6 DEF ResultFromItsExecutor
<1> QED
  BY <1>7, <1>8, <1>9, <1>10, <1>12, <1>13, <1>14

LEMMA DispatchAsyncOK ==
  ASSUME TaskInv, NEW c \in Calls, NEW s \in Servers, DispatchAsync(c, s)
  PROVE  TaskInv'
<1>1. UNCHANGED <<proxies, onjobs, todo, running, results, rec, started, answered, gone, undone>>
  BY DEF DispatchAsync
<1>2. call \in [Calls -> CallState]
  BY DEF TaskInv, TaskTypes
<1>3. CASE Insert(Job, Nobody, FAIL, "offline") /\ UNCHANGED call
  BY <1>1, <1>2, <1>3, InsertOK DEF InsertStep, PROCESS, FAIL
<1>4. CASE Insert(Job, Nobody, PROCESS, "unsupported") /\ UNCHANGED call
  BY <1>1, <1>2, <1>4, InsertOK DEF InsertStep, PROCESS, FAIL
<1>5. ASSUME NEW w \in Supporting(s), UNCHANGED logs,
             call' = [call EXCEPT ![c] = [Idle EXCEPT !.pc = "add", !.at = s, !.left = Select(w, Supporting(s))]]
      PROVE  TaskInv'
  <2> USE DEF TaskInv
  <2> DEFINE n == [Idle EXCEPT !.pc = "add", !.at = s, !.left = Select(w, Supporting(s))]
  <2>1. Supporting(s) \subseteq Workers
    BY DEF Supporting
  <2>2. Select(w, Supporting(s)) \subseteq Workers
    BY <2>1 DEF Select
  <2>3. n \in CallState /\ n.pc = "add" /\ n.at = s /\ n.task = Job
    <3>1. Idle \in CallState /\ Idle.task = Job
      BY DEF Idle, CallState
    <3>2. n \in CallState
      BY <2>2, <3>1 DEF CallState
    <3>3. n.pc = "add" /\ n.at = s /\ n.task = Job
      BY <3>1 DEF CallState
    <3> QED
      BY <3>2, <3>3
  <2> HIDE DEF n
  <2>4. call' \in [Calls -> CallState] /\ \A d \in Calls : call'[d] = IF d = c THEN n ELSE call[d]
    BY <1>2, <1>5, <2>3 DEF n
  <2>5. TaskTypes'
    BY <1>1, <1>5, <2>4 DEF TaskTypes
  <2>6. RowsExist' /\ CallsOK'
    BY <1>1, <1>5, <2>3, <2>4 DEF RowsExist, CallsOK, Handling
  <2>7. NamedOnce'
    BY <1>1, <1>5, <2>3, <2>4 DEF NamedOnce
  <2>8. ReadsOK'
    BY <1>1, <1>5, <2>3, <2>4 DEF ReadsOK, ReadOf, Reported
  <2>9. AnswersOK' /\ ResultFromItsExecutor'
    BY <1>1, <1>5 DEF AnswersOK, ResultFromItsExecutor
  <2> QED
    BY <2>5, <2>6, <2>7, <2>8, <2>9
<1> QED
  BY <1>3, <1>4, <1>5 DEF DispatchAsync

LEMMA AddTaskOK ==
  ASSUME TaskInv, NEW c \in Calls, NEW w \in Workers, AddTask(c, w)
  PROVE  TaskInv'
<1>1. /\ call[c].pc = "add" /\ Insert(call[c].task, w, PROCESS, "none")
      /\ call' = [call EXCEPT ![c].pc = "publish", ![c].to = w, ![c].left = call[c].left \ {w},
                              ![c].task = Len(logs) + 1]
      /\ UNCHANGED <<proxies, onjobs, todo, running, results, rec, started, answered, gone, undone>>
  BY DEF AddTask
<1>2. call \in [Calls -> CallState] /\ call[c] \in CallState
  BY DEF TaskInv, TaskTypes
<1>3. call[c].task \in {Job} \cup DOMAIN logs /\ call[c].at \in Servers
  BY <1>1 DEF TaskInv, RowsExist, CallsOK
<1>4. Len(logs) + 1 \in Rows
  <2>1. call[c].task \in Rows \cup {Job}
    BY <1>3, RowFacts DEF TaskInv
  <2> QED
    BY <1>1, <2>1, InsertFacts DEF TaskInv
<1>5. \A d \in Calls : d # c => call'[d] = call[d]
  BY <1>1, <1>2
<1>6. /\ call'[c].pc = "publish" /\ call'[c].task = Len(logs) + 1
      /\ call'[c].to = w /\ call'[c].at = call[c].at
  BY <1>1, <1>2 DEF CallState
<1>7. call' \in [Calls -> CallState]
  <2>1. /\ call[c].left \ {w} \in SUBSET Workers
        /\ Len(logs) + 1 \in Rows \cup {Job}
    BY <1>2, <1>4 DEF CallState
  <2>2. [call[c] EXCEPT !.pc = "publish", !.to = w, !.left = call[c].left \ {w}, !.task = Len(logs) + 1] \in CallState
    BY <1>2, <2>1 DEF CallState
  <2>3. call' = [call EXCEPT ![c] = [call[c] EXCEPT !.pc = "publish", !.to = w, !.left = call[c].left \ {w},
                                                    !.task = Len(logs) + 1]]
    BY <1>1, <1>2
  <2> QED
    BY <1>2, <2>2, <2>3
<1>8. InsertStep(c, call[c].task, w, PROCESS, "none")
  BY <1>1, <1>5, <1>6, <1>7, <1>3 DEF InsertStep
<1> QED
  BY <1>3, <1>8, InsertOK

\* A row is updated by what was read of it; the call or the subscriber goes on.
UpdateStep(r, x) ==
  /\ logs' = [logs EXCEPT ![r] = x]
  /\ call' \in [Calls -> CallState]
  /\ \A c \in Calls :
       \/ call'[c] = call[c]
       \/ call'[c] = Idle
       \/ /\ Handling(c) /\ call'[c].task = call[c].task /\ call'[c].at = call[c].at
          /\ call'[c].pc = "add" \/ (call'[c].pc = "read" /\ call'[c].to = call[c].to)
  /\ rec' \in [Servers -> RecordState]
  /\ \A s \in Servers : rec'[s] \in {rec[s], NoRecord}
  /\ undone' \in SUBSET Rows
  /\ UNCHANGED <<proxies, onjobs, todo, running, results, started, answered, gone>>

LEMMA UpdateOK ==
  ASSUME TaskInv, NEW r \in DOMAIN logs, NEW x, ReadOf(x, r),
         x.status = SUCCESS => <<r, x.client, SUCCESS>> \in answered,
         UpdateStep(r, x)
  PROVE  TaskInv'
<1> USE DEF TaskInv
<1>1. /\ logs' \in Seq(LogRow) /\ Len(logs') <= MaxLogs
      /\ DOMAIN logs' = DOMAIN logs
      /\ logs'[r] = x
      /\ \A o \in DOMAIN logs : o # r => logs'[o] = logs[o]
  BY UpdateFacts DEF UpdateStep, ReadOf
<1>2. \A o \in DOMAIN logs : logs'[o].task = logs[o].task /\ logs'[o].client = logs[o].client
  BY <1>1 DEF ReadOf
<1>3. /\ UNCHANGED <<proxies, onjobs, todo, running, results, started, answered, gone>>
      /\ undone' \in SUBSET Rows
  BY DEF UpdateStep
<1>4. /\ call' \in [Calls -> CallState]
      /\ \A c \in Calls :
           \/ call'[c] = call[c]
           \/ call'[c].pc = "idle" /\ call'[c].task = Job
           \/ /\ Handling(c) /\ call'[c].task = call[c].task /\ call'[c].at = call[c].at
              /\ call'[c].pc = "add" \/ (call'[c].pc = "read" /\ call'[c].to = call[c].to)
  <2>1. Idle.pc = "idle" /\ Idle.task = Job
    BY DEF Idle
  <2> QED
    BY <2>1 DEF UpdateStep
<1>5. /\ rec' \in [Servers -> RecordState]
      /\ \A s \in Servers : rec'[s] = rec[s] \/ rec'[s].pc = "idle"
  <2>1. NoRecord.pc = "idle"
    BY DEF NoRecord
  <2> QED
    BY <2>1 DEF UpdateStep
<1>6. TaskTypes'
  BY <1>1, <1>3, <1>4, <1>5 DEF TaskTypes
<1>7. RowsExist'
  BY <1>1, <1>3, <1>4, <1>5 DEF RowsExist, Handling
<1>8. CallsOK'
  BY <1>2, <1>4 DEF CallsOK, RowsExist, Handling
<1>9. NamedOnce'
  BY <1>2, <1>3, <1>4 DEF NamedOnce, RowsExist
<1>10. \A y \in LogRow, o \in DOMAIN logs : ReadOf(y, o) => ReadOf(y, o)'
  BY <1>2, <1>3 DEF ReadOf, Reported
<1>11. ReadsOK'
  <2>1. ASSUME NEW c \in Calls, call'[c].pc = "write"
        PROVE  ReadOf(call[c].seen, call[c].task)'
    <3>1. call'[c] = call[c]
      BY <1>4, <2>1
    <3> QED
      BY <1>10, <2>1, <3>1 DEF ReadsOK, RowsExist, Handling, ReadOf
  <2>2. ASSUME NEW s \in Servers, rec'[s].pc = "write"
        PROVE  ReadOf(rec[s].seen, rec[s].row)' /\ <<rec'[s].row, logs'[rec'[s].row].client, rec'[s].status>> \in answered'
    <3>1. rec'[s] = rec[s]
      BY <1>5, <2>2
    <3> QED
      BY <1>2, <1>3, <1>10, <2>2, <3>1 DEF ReadsOK, RowsExist, ReadOf
  <2> QED
    BY <2>1, <2>2 DEF ReadsOK
<1>12. AnswersOK'
  BY <1>2, <1>3 DEF AnswersOK, RowsExist
<1>13. ResultFromItsExecutor'
  <2>1. ASSUME NEW o \in DOMAIN logs, o # r
        PROVE  /\ logs'[o].result = "reported" => \E a \in answered' : a[1] = o /\ a[2] = logs'[o].client
               /\ logs'[o].status = SUCCESS => <<o, logs'[o].client, SUCCESS>> \in answered'
    BY <1>1, <1>3, <2>1 DEF ResultFromItsExecutor
  <2>2. /\ x.result = "reported" => \E a \in answered' : a[1] = r /\ a[2] = x.client
        /\ x.status = SUCCESS => <<r, x.client, SUCCESS>> \in answered'
    BY <1>3 DEF ReadOf, Reported
  <2> QED
    BY <1>1, <2>1, <2>2 DEF ResultFromItsExecutor
<1> QED
  BY <1>6, <1>7, <1>8, <1>9, <1>11, <1>12, <1>13

\* Where a call goes on after a mark.
LEMMA MarkedFacts ==
  ASSUME NEW y \in CallState
  PROVE  /\ [y EXCEPT !.pc = "read", !.marks = 1, !.seen = Nobody] \in CallState
         /\ [y EXCEPT !.pc = "add", !.marks = 0, !.to = Nobody, !.seen = Nobody] \in CallState
<1>1. ASSUME NEW k \in 0..2
      PROVE  /\ [y EXCEPT !.pc = "read", !.marks = k, !.seen = Nobody] \in CallState
             /\ [y EXCEPT !.pc = "add", !.marks = k, !.to = Nobody, !.seen = Nobody] \in CallState
  BY DEF CallState
<1>2. 1 \in 0..2 /\ 0 \in 0..2
  OBVIOUS
<1> QED
  BY <1>1, <1>2

LEMMA WriteFlagOK ==
  ASSUME TaskInv, NEW c \in Calls, WriteFlag(c)
  PROVE  TaskInv'
<1> USE DEF TaskInv
<1> DEFINE r == call[c].task
           x == [call[c].seen EXCEPT !.status = PROCESS]
           n == IF call[c].marks = 2 THEN [call[c] EXCEPT !.pc = "read", !.marks = 1, !.seen = Nobody]
                ELSE IF call[c].left # {}
                     THEN [call[c] EXCEPT !.pc = "add", !.marks = 0, !.to = Nobody, !.seen = Nobody]
                ELSE Idle
<1>1. /\ call[c].pc = "write" /\ logs' = [logs EXCEPT ![r] = x]
      /\ call' = [call EXCEPT ![c] = n]
      /\ undone' = IF Settled(r) THEN undone \cup {r} ELSE undone
      /\ UNCHANGED <<proxies, onjobs, todo, running, results, rec, started, answered, gone>>
  BY DEF WriteFlag
<1>2. /\ r \in DOMAIN logs /\ r \in Rows /\ ReadOf(call[c].seen, r) /\ call[c] \in CallState
      /\ call \in [Calls -> CallState]
  BY <1>1, RowFacts DEF RowsExist, Handling, ReadsOK, TaskTypes
<1>3. ReadOf(x, r) /\ x.status # SUCCESS
  <2>1. call[c].seen \in LogRow
    BY <1>2 DEF ReadOf
  <2>2. x \in LogRow
    BY <2>1 DEF LogRow
  <2>3. /\ x.task = call[c].seen.task /\ x.client = call[c].seen.client
        /\ x.result = call[c].seen.result
    BY <2>1 DEF LogRow
  <2>4. x.status # SUCCESS
    BY <2>1 DEF LogRow, PROCESS, SUCCESS
  <2> HIDE DEF x
  <2> QED
    BY <1>2, <2>2, <2>3, <2>4 DEF ReadOf
<1>4. n \in CallState
  <2>1. Idle \in CallState
    BY DEF Idle, CallState
  <2> QED
    BY <1>2, <2>1, MarkedFacts
<1>5. \/ n = Idle
      \/ n.task = r /\ n.at = call[c].at /\ (n.pc = "add" \/ (n.pc = "read" /\ n.to = call[c].to))
  BY <1>2 DEF CallState
<1> HIDE DEF n, x
<1>6. UpdateStep(r, x)
  <2>1. undone' \in SUBSET Rows
    BY <1>1, <1>2 DEF TaskTypes
  <2>2. rec \in [Servers -> RecordState]
    BY DEF TaskTypes
  <2>3. call' \in [Calls -> CallState] /\ \A d \in Calls : call'[d] = IF d = c THEN n ELSE call[d]
    BY <1>1, <1>2, <1>4
  <2> QED
    BY <1>1, <1>5, <2>1, <2>2, <2>3 DEF UpdateStep, Handling
<1> QED
  BY <1>2, <1>3, <1>6, UpdateOK

LEMMA UpdateRowOK ==
  ASSUME TaskInv, NEW s \in Servers, Update(s)
  PROVE  TaskInv'
<1> USE DEF TaskInv
<1> DEFINE r == rec[s].row
           x == [rec[s].seen EXCEPT !.status = rec[s].status, !.result = "reported"]
<1>1. /\ rec[s].pc = "write" /\ logs' = [logs EXCEPT ![r] = x]
      /\ rec' = [rec EXCEPT ![s] = NoRecord]
      /\ UNCHANGED <<call, proxies, onjobs, todo, running, results, started, answered, gone, undone>>
  BY DEF Update
<1>2. /\ r \in DOMAIN logs /\ ReadOf(rec[s].seen, r) /\ rec[s] \in RecordState
      /\ rec \in [Servers -> RecordState] /\ <<r, logs[r].client, rec[s].status>> \in answered
  BY <1>1 DEF RowsExist, ReadsOK, TaskTypes
<1>3. ReadOf(x, r) /\ x.client = logs[r].client /\ x.status = rec[s].status
  <2>1. rec[s].seen \in LogRow /\ rec[s].status \in {SUCCESS, FAIL}
    BY <1>2 DEF ReadOf, RecordState
  <2>2. x \in LogRow
    BY <2>1 DEF LogRow
  <2>3. /\ x.task = rec[s].seen.task /\ x.client = rec[s].seen.client
        /\ x.result = "reported" /\ x.status = rec[s].status
    BY <2>1 DEF LogRow
  <2>4. Reported(r)
    BY <1>2 DEF Reported
  <2> HIDE DEF x
  <2> QED
    BY <1>2, <2>2, <2>3, <2>4 DEF ReadOf
<1> HIDE DEF x
<1>4. UpdateStep(r, x)
  <2>1. NoRecord \in RecordState
    BY TaskRunAssumption DEF NoRecord, RecordState, SUCCESS, FAIL
  <2>2. /\ rec' \in [Servers -> RecordState]
        /\ \A t \in Servers : rec'[t] = IF t = s THEN NoRecord ELSE rec[t]
    BY <1>1, <1>2, <2>1
  <2> QED
    BY <1>1, <2>2 DEF UpdateStep, TaskTypes
<1> QED
  BY <1>2, <1>3, <1>4, UpdateOK

-----------------------------------------------------------------------------
LEMMA ThrowOK ==
  ASSUME Inv, NEW c \in Calls, Throw(c)
  PROVE  Inv'
<1>1. RegistryInv'
  BY FaultOK DEF Inv, Throw, RegistryInv, RegistryTypeOK
<1>2. call \in [Calls -> CallState] /\ Idle \in CallState
  BY DEF Inv, TaskInv, TaskTypes, Idle, CallState
<1>3. InCall(c) \subseteq Rows
  BY RowFacts DEF InCall, Inv, TaskInv, RowsExist, Handling
<1>4. /\ call' \in [Calls -> CallState]
      /\ \A d \in Calls : call'[d] \in {call[d], Idle}
      /\ gone' \in SUBSET Rows
  BY <1>2, <1>3 DEF Throw, Inv, TaskInv, TaskTypes
<1>5. TaskInv'
  BY <1>4, LoseOK DEF Throw, Inv, TaskInv, TaskTypes
<1> QED
  BY <1>1, <1>5 DEF Inv

LEMMA DropOK ==
  ASSUME Inv, Drop
  PROVE  Inv'
<1>1. RegistryInv'
  BY RegistryStutterOK DEF Inv, Drop
<1>2. /\ proxies' \subseteq proxies /\ onjobs' \subseteq onjobs /\ gone' \in SUBSET Rows
  BY DEF Drop, Undeliverable, Inv, TaskInv, TaskTypes
<1>3. TaskInv'
  BY <1>2, LoseOK DEF Drop, Inv, TaskInv, TaskTypes
<1> QED
  BY <1>1, <1>3 DEF Inv

LEMMA HandlerThrowsOK ==
  ASSUME Inv, HandlerThrows
  PROVE  Inv'
<1>1. RegistryInv'
  BY FaultOK DEF Inv, HandlerThrows, RegistryInv, RegistryTypeOK
<1>2. rec \in [Servers -> RecordState] /\ NoRecord \in RecordState
  BY TaskRunAssumption DEF Inv, TaskInv, TaskTypes, NoRecord, RecordState, SUCCESS, FAIL
<1>3. /\ rec' \in [Servers -> RecordState] /\ \A t \in Servers : rec'[t] \in {rec[t], NoRecord}
      /\ proxies' \subseteq proxies /\ results' \subseteq results
  BY <1>2 DEF HandlerThrows
<1>4. gone' \in SUBSET Rows
  BY RowFacts DEF HandlerThrows, Inv, TaskInv, TaskTypes, RowsExist
<1>5. TaskInv'
  BY <1>3, <1>4, LoseOK DEF HandlerThrows, Inv, TaskInv, TaskTypes
<1> QED
  BY <1>1, <1>5 DEF Inv

LEMMA DisconnectWorkerOK ==
  ASSUME Inv, NEW w \in Workers, NEW how \in {"down", "dead"}, DisconnectWorker(w, how)
  PROVE  Inv'
<1>1. RegistryInv'
  BY DisconnectOK DEF Inv, DisconnectWorker
<1>2. /\ todo \in [Workers -> SUBSET Rows] /\ running \in [Workers -> SUBSET Rows]
      /\ results \in SUBSET Answer
  BY DEF Inv, TaskInv, TaskTypes
<1>3. /\ todo' \in [Workers -> SUBSET Rows] /\ \A x \in Workers : todo'[x] \subseteq todo[x]
      /\ running' \in [Workers -> SUBSET Rows] /\ \A x \in Workers : running'[x] \subseteq running[x]
      /\ results' \subseteq results
  BY <1>2 DEF DisconnectWorker
<1>4. gone' \in SUBSET Rows
  <2>1. {m.row : m \in {x \in results : x.by = w}} \subseteq Rows
    BY <1>2 DEF Answer
  <2> QED
    BY <1>2, <2>1 DEF DisconnectWorker, TaskLost, Inv, TaskInv, TaskTypes
<1>5. TaskInv'
  BY <1>3, <1>4, LoseOK DEF DisconnectWorker, Inv, TaskInv, TaskTypes
<1> QED
  BY <1>1, <1>5 DEF Inv

LEMMA KillServerOK ==
  ASSUME Inv, NEW s \in Servers, KillServer(s)
  PROVE  Inv'
<1>1. RegistryInv'
  BY KillOK DEF Inv, KillServer
<1>2. /\ call \in [Calls -> CallState] /\ rec \in [Servers -> RecordState]
      /\ Idle \in CallState /\ NoRecord \in RecordState
  BY TaskRunAssumption DEF Inv, TaskInv, TaskTypes, Idle, CallState, NoRecord, RecordState, SUCCESS, FAIL
<1>3. /\ call' \in [Calls -> CallState] /\ \A c \in Calls : call'[c] \in {call[c], Idle}
      /\ rec' \in [Servers -> RecordState] /\ \A t \in Servers : rec'[t] \in {rec[t], NoRecord}
      /\ proxies' \subseteq proxies /\ onjobs' \subseteq onjobs /\ results' \subseteq results
  BY <1>2 DEF KillServer
<1>4. gone' \in SUBSET Rows
  <2> DEFINE inCalls == UNION {InCall(c) : c \in {x \in Calls : call[x].at = s}}
             toWorkers == {m.row : m \in {x \in onjobs : Home[x.to] = s}}
             toServers == {m.row : m \in {x \in proxies : x.from = s}}
             back == {m.row : m \in {x \in results : Home[x.by] = s}}
             recorded == IF rec[s].pc = "write" THEN {rec[s].row} ELSE {}
  <2>1. inCalls \subseteq Rows
    BY RowFacts DEF InCall, Inv, TaskInv, RowsExist, Handling
  <2>2. toWorkers \subseteq Rows /\ toServers \subseteq Rows /\ back \subseteq Rows
    BY RowFacts DEF Inv, TaskInv, RowsExist
  <2>3. recorded \subseteq Rows
    BY RowFacts DEF Inv, TaskInv, RowsExist
  <2>4. gone' = gone \cup (inCalls \cup toWorkers \cup toServers \cup back \cup recorded)
    BY DEF KillServer, TaskLost
  <2>5. gone \in SUBSET Rows
    BY DEF Inv, TaskInv, TaskTypes
  <2> HIDE DEF inCalls, toWorkers, toServers, back, recorded
  <2> QED
    BY <2>1, <2>2, <2>3, <2>4, <2>5
<1>5. TaskInv'
  BY <1>3, <1>4, LoseOK DEF KillServer, Inv, TaskInv, TaskTypes
<1> QED
  BY <1>1, <1>5 DEF Inv

LEMMA TaskStutterOK ==
  ASSUME TaskInv, UNCHANGED taskVars
  PROVE  TaskInv'
BY LoseOK DEF taskVars, TaskInv, TaskTypes

LEMMA TaskStepOK ==
  ASSUME Inv, TaskStep
  PROVE  Inv'
<1>1. ASSUME UNCHANGED registryVars, TaskInv' PROVE Inv'
  BY <1>1, RegistryStutterOK DEF Inv
<1>2. ASSUME NEW c \in Calls, CallStep(c) PROVE Inv'
  <2>1. UNCHANGED registryVars
    BY <1>2 DEF CallStep, AddTask, PublishTask, ReadFlag, WriteFlag
  <2>2. TaskInv'
    BY <1>2, AddTaskOK, PublishTaskOK, ReadFlagOK, WriteFlagOK DEF CallStep, Inv
  <2> QED
    BY <1>1, <2>1, <2>2
<1>3. ASSUME NEW m \in proxies, Proxy(m) PROVE Inv'
  BY <1>1, <1>3, ProxyOK DEF Proxy, Inv
<1>4. ASSUME NEW m \in onjobs, OnJob(m) PROVE Inv'
  BY <1>1, <1>4, OnJobOK DEF OnJob, Inv
<1>5. ASSUME NEW w \in Workers, Timer_Elapsed(w) PROVE Inv'
  BY <1>1, <1>5, Timer_ElapsedOK DEF Timer_Elapsed, Inv
<1>6. ASSUME NEW w \in Workers, NEW r \in running[w], NEW status \in Outcomes[w], DoTaskAsync(w, r, status)
      PROVE  Inv'
  BY <1>1, <1>6, DoTaskAsyncOK DEF DoTaskAsync, Inv
<1>7. ASSUME NEW s \in Servers, NEW m \in results, ReadTask(s, m) PROVE Inv'
  BY <1>1, <1>7, ReadTaskOK DEF ReadTask, Inv
<1>8. ASSUME NEW s \in Servers, Update(s) PROVE Inv'
  BY <1>1, <1>8, UpdateRowOK DEF Update, Inv
<1> QED
  BY <1>2, <1>3, <1>4, <1>5, <1>6, <1>7, <1>8, DropOK DEF TaskStep

LEMMA StepOK == ASSUME Inv, [Next]_vars PROVE Inv'
<1>1. ASSUME RegistryInv', UNCHANGED taskVars PROVE Inv'
  BY <1>1, TaskStutterOK DEF Inv
<1>2. CASE Lists
  BY <1>1, <1>2, ListStepOK DEF Lists, Inv
<1>3. ASSUME NEW c \in Calls, NEW s \in Servers, DispatchAsync(c, s) PROVE Inv'
  BY <1>3, DispatchAsyncOK, RegistryStutterOK DEF DispatchAsync, Inv
<1>4. ASSUME NEW s \in Servers, StartServer(s) PROVE Inv'
  BY <1>1, <1>4, StartOK DEF StartServer, Inv
<1>5. CASE UNCHANGED vars
  BY <1>1, <1>5, RegistryStutterOK DEF vars, Inv
<1>6. CASE ListsFail
  BY <1>1, <1>6, ListFaultOK DEF ListsFail, Inv
<1> QED
  BY <1>2, <1>3, <1>4, <1>5, <1>6, TaskStepOK, HandlerThrowsOK, ThrowOK, DisconnectWorkerOK,
     KillServerOK DEF Next

LEMMA InitOK == Init => Inv
BY RegistryInitOK, TaskInitOK DEF Init, Inv

LEMMA Invariance == Spec => []Inv
BY InitOK, StepOK, PTL DEF Spec

-----------------------------------------------------------------------------
\* Rows, calls and messages are what they should be, and the lists of executors too.
THEOREM TaskTypeCorrect == Spec => []TypeOK
<1>1. Inv => TypeOK
  BY DEF Inv, RegistryInv, TaskInv, TaskTypes, TypeOK
<1> QED
  BY <1>1, Invariance, PTL

\* The result in a row is one that the executor of the row gave for it, whatever
\* marks and records overwrite one another.
THEOREM ResultsAuthentic == Spec => []ResultFromItsExecutor
<1>1. Inv => ResultFromItsExecutor
  BY DEF Inv, TaskInv
<1> QED
  BY <1>1, Invariance, PTL

\* No row is started twice, and only by its executor.
THEOREM StartedOnce == Spec => RunsOnce
<1>1. ASSUME Inv, [Next]_vars
      PROVE  [\A w \in Workers : \A r \in running'[w] \ running[w] :
                r \notin started /\ logs[r].client = w]_vars
  <2> SUFFICES ASSUME NEW w \in Workers, NEW r \in running'[w] \ running[w]
               PROVE  r \notin started /\ logs[r].client = w
    OBVIOUS
  <2>1. running \in [Workers -> SUBSET Rows]
    BY <1>1 DEF Inv, TaskInv, TaskTypes
  <2>2. PICK x \in Workers : Timer_Elapsed(x)
    BY <1>1, <2>1 DEF Next, Lists, ListsFail, HandlerThrows, TaskStep, CallStep, AddTask, PublishTask, ReadFlag, WriteFlag, Proxy,
       OnJob, Drop, DoTaskAsync, ReadTask, Update, DispatchAsync, Throw, DisconnectWorker, KillServer,
       StartServer, vars, taskVars
  <2>3. r \in todo[w]
    BY <2>1, <2>2 DEF Timer_Elapsed
  <2> QED
    BY <1>1, <2>3 DEF Inv, TaskInv, NamedOnce
<1> QED
  BY <1>1, Invariance, PTL DEF Spec, RunsOnce

\* A final status is only ever lost to a mark of the call that made the row.
THEOREM SettledKept == Spec => SettledStays
<1>1. ASSUME Inv, [Next]_vars
      PROVE  [\A r \in Rows : Settled(r) /\ ~InHand(r) => Settled(r)']_vars
  <2> SUFFICES ASSUME NEW r \in Rows, Settled(r), ~InHand(r)
               PROVE  Settled(r)'
    OBVIOUS
  <2>1. r \in DOMAIN logs /\ logs[r].status # PROCESS /\ TaskTypes /\ TaskInv
    BY <1>1 DEF Settled, Inv, TaskInv
  <2>2. ASSUME UNCHANGED logs PROVE Settled(r)'
    BY <2>1, <2>2 DEF Settled
  <2>3. ASSUME NEW task \in Rows \cup {Job}, NEW client \in Workers \cup {Nobody},
               NEW status \in {PROCESS, FAIL}, NEW result \in {"none", "offline", "unsupported"},
               Insert(task, client, status, result)
        PROVE  Settled(r)'
    BY <2>1, <2>3, InsertFacts DEF Settled
  <2>4. ASSUME NEW c \in Calls, WriteFlag(c) PROVE Settled(r)'
    <3>1. call[c].task # r /\ call[c].task \in DOMAIN logs
      BY <2>1, <2>4 DEF WriteFlag, InHand, TaskInv, RowsExist, Handling
    <3>2. logs' = [logs EXCEPT ![call[c].task] = [call[c].seen EXCEPT !.status = PROCESS]]
      BY <2>4 DEF WriteFlag
    <3>3. DOMAIN logs' = DOMAIN logs /\ logs'[r] = logs[r]
      BY <2>1, <3>1, <3>2 DEF TaskTypes
    <3> QED
      BY <2>1, <3>3 DEF Settled
  <2>5. ASSUME NEW s \in Servers, Update(s) PROVE Settled(r)'
    <3> DEFINE x == [rec[s].seen EXCEPT !.status = rec[s].status, !.result = "reported"]
    <3>1. logs' = [logs EXCEPT ![rec[s].row] = x] /\ rec[s].pc = "write"
      BY <2>5 DEF Update
    <3>2. rec[s].row \in DOMAIN logs /\ rec[s].seen \in LogRow /\ rec[s].status \in {SUCCESS, FAIL}
      BY <2>1, <3>1 DEF TaskInv, RowsExist, ReadsOK, ReadOf, TaskTypes, RecordState
    <3>3. x.status # PROCESS
      BY <3>2 DEF LogRow, PROCESS, SUCCESS, FAIL
    <3> HIDE DEF x
    <3>4. DOMAIN logs' = DOMAIN logs /\ logs'[r] = IF r = rec[s].row THEN x ELSE logs[r]
      BY <2>1, <3>1, <3>2 DEF TaskTypes
    <3> QED
      BY <2>1, <3>3, <3>4 DEF Settled
  <2>6. ASSUME NEW c \in Calls, NEW s \in Servers, DispatchAsync(c, s) PROVE Settled(r)'
    BY <2>2, <2>3, <2>6 DEF DispatchAsync
  <2>7. ASSUME NEW c \in Calls, NEW w \in Workers, AddTask(c, w) PROVE Settled(r)'
    <3>1. call[c].task \in Rows \cup {Job}
      BY <2>1, RowFacts DEF TaskInv, RowsExist
    <3> QED
      BY <2>3, <2>7, <3>1 DEF AddTask
  <2>8. ASSUME TaskStep PROVE Settled(r)'
    BY <2>2, <2>4, <2>5, <2>7, <2>8 DEF TaskStep, CallStep, PublishTask, ReadFlag, Proxy, OnJob, Drop,
       Timer_Elapsed, DoTaskAsync, ReadTask
  <2> QED
    BY <1>1, <2>2, <2>6, <2>8 DEF Next, Lists, ListsFail, HandlerThrows, Throw, DisconnectWorker, KillServer, StartServer,
       vars, taskVars
<1> QED
  BY <1>1, Invariance, PTL DEF Spec, SettledStays
=============================================================================
