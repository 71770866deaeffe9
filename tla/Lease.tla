-------------------------------- MODULE Lease -------------------------------
(***************************************************************************)
(* What the database lock promises, with every call a question and one     *)
(* atomic answer: ILockerService as its caller in DiscoveryFromDb sees it. *)
(* A server asks for the key, is granted or refused it, works inside the   *)
(* section and leaves.  A lease that has run out may be granted to another *)
(* server while its holder is still inside: that holder is then robbed.    *)
(***************************************************************************)
CONSTANTS
  Nodes,     \* server identifiers
  NoOne,     \* the key is free
  RunsOut    \* whether even a lease just granted may be found run out

VARIABLES
  owner,     \* the server the key belongs to, or NoOne
  mayExpire, \* a server may find the lease run out
  asking,    \* servers whose question is not answered
  outdated,  \* asking servers whose question was put before a release
  inside,    \* servers inside the section
  robbed     \* servers inside the section whose lease went to another

leaseVars == <<owner, mayExpire, asking, outdated, inside, robbed>>

Init ==
  /\ owner = NoOne
  /\ mayExpire = FALSE
  /\ asking = {} /\ outdated = {} /\ inside = {} /\ robbed = {}

Ask(n) ==
  /\ n \notin asking \cup inside
  /\ asking' = asking \cup {n}
  /\ UNCHANGED <<owner, mayExpire, outdated, inside, robbed>>

Grantable(n) == owner \in {NoOne, n} \/ mayExpire \/ n \in outdated

Grant(n) ==
  /\ n \in asking
  /\ Grantable(n)
  /\ owner' = n
  /\ mayExpire' = RunsOut
  /\ asking' = asking \ {n}
  /\ outdated' = outdated \ {n}
  /\ inside' = inside \cup {n}
  /\ robbed' = robbed \cup ((inside \cap {owner}) \ {n})

Refuse(n) ==
  /\ n \in asking
  /\ asking' = asking \ {n}
  /\ outdated' = outdated \ {n}
  /\ UNCHANGED <<owner, mayExpire, inside, robbed>>

\* The server leaves without the release: the key stays its own.
Quit(n) ==
  /\ n \in inside
  /\ inside' = inside \ {n}
  /\ robbed' = robbed \ {n}
  /\ UNCHANGED <<owner, mayExpire, asking, outdated>>

\* A release frees the key of its caller, and of nobody else.
Release(n) ==
  /\ n \in inside
  /\ inside' = inside \ {n}
  /\ robbed' = robbed \ {n}
  /\ \/ /\ owner = n
        /\ owner' = NoOne
        /\ mayExpire' = FALSE
        /\ outdated' \in SUBSET asking
        /\ outdated \subseteq outdated'
     \/ /\ owner # n
        /\ UNCHANGED <<owner, mayExpire, outdated>>
  /\ UNCHANGED asking

\* The lease has run out.
RunOut ==
  /\ owner # NoOne
  /\ mayExpire' = TRUE
  /\ UNCHANGED <<owner, asking, outdated, inside, robbed>>

Next ==
  \/ RunOut
  \/ \E n \in Nodes : Ask(n) \/ Grant(n) \/ Refuse(n) \/ Quit(n) \/ Release(n)

Spec == Init /\ [][Next]_leaseVars
=============================================================================
