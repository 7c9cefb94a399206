------------------------------ MODULE ServerList ------------------------------
(* Which server the synchronous client dials next: the user's list, PRIMARY_SERVERS,   *)
(* ALL_KNOWN_SERVERS, the blacklist and the last server (net/client.rs), and the same  *)
(* for the asynchronous client, which has a fixed list and the last server only        *)
(* (net/async_client.rs).  A scan over the lists is one step; HqClient and AsyncClient *)
(* have the steps of a connect.                                                        *)
EXTENDS Naturals, Sequences, SequencesExt

CONSTANTS
  Servers,   \* quotation servers
  Primary,   \* PRIMARY_SERVERS, in order (DEFAULT_SERVERS of the asynchronous client)
  AllKnown,  \* ALL_KNOWN_SERVERS, in order
  None,
  Lists      \* lists the user may set

ASSUME ServerListAssumption ==
  /\ Primary \in Seq(Servers) /\ AllKnown \in Seq(Servers) /\ Lists \subseteq Seq(Servers)
  /\ Primary # <<>> /\ None \notin Servers /\ IsFiniteSet(Servers)

VARIABLES
  kind,       \* which client this is
  up,         \* servers that answer a dial
  list,       \* server_list
  blocked,    \* blocked_servers
  last,       \* last_server (current_server of the asynchronous client)
  connected

serverVars == <<kind, up, list, blocked, last, connected>>

Kinds == {"sync", "async"}

ServerTypeOK ==
  /\ kind \in Kinds
  /\ up \subseteq Servers
  /\ list \in Seq(Servers)
  /\ blocked \subseteq Servers
  /\ last \in Servers \cup {None}
  /\ connected \in BOOLEAN

ServerInit ==
  /\ kind \in Kinds
  /\ up \in SUBSET Servers
  /\ list = <<>> /\ blocked = {} /\ last = None /\ connected = FALSE

-----------------------------------------------------------------------------
(* Scans *)

\* The places in a list whose server answers and is not passed over.
Answering(candidates, skipped) == {i \in DOMAIN candidates : candidates[i] \in up \ skipped}

FirstAnswering(candidates, skipped) == candidates[Min(Answering(candidates, skipped))]

Last1 == IF last = None THEN <<>> ELSE <<last>>

\* connect for one candidate after the other, until one is reached.  The asynchronous
\* client, which passes none over, remembers a server before it dials it.
Reach(candidates, skipped) ==
  IF Answering(candidates, skipped) # {}
    THEN last' = FirstAnswering(candidates, skipped) /\ connected' = TRUE
    ELSE /\ last' = IF kind = "async" /\ candidates # <<>> THEN Last(candidates) ELSE last
         /\ UNCHANGED connected

AnyCandidates ==
  IF kind = "sync" THEN Last1 \o list \o Primary \o AllKnown ELSE Last1 \o Primary

\* The last server is tried first and passed over afterwards: it does not answer then.
RetryCandidates ==
  IF kind = "sync" THEN Last1 \o list \o Primary \o AllKnown ELSE Last1

MutSkippedOnSwitch == blocked
SkippedOnSwitch == {last} \cup blocked

SkippedByBeat == {IF last = None THEN Primary[1] ELSE last}

-----------------------------------------------------------------------------
(* Calls *)

Connect(s) ==
  /\ Reach(<<s>>, {})
  /\ UNCHANGED <<kind, up, list, blocked>>

ConnectToAny ==
  /\ IF connected THEN UNCHANGED <<last, connected>> ELSE Reach(AnyCandidates, blocked)
  /\ UNCHANGED <<kind, up, list, blocked>>

Disconnect ==
  /\ connected' = FALSE
  /\ last' = IF kind = "async" THEN None ELSE last
  /\ UNCHANGED <<kind, up, list, blocked>>

\* reconnect_if_needed, before each retry of a request.
Reconnect ==
  /\ IF connected THEN UNCHANGED <<last, connected>> ELSE Reach(RetryCandidates, {})
  /\ UNCHANGED <<kind, up, list, blocked>>

\* reconnect_to_another_server, after an empty answer.
SwitchServer == Reach(Primary, SkippedOnSwitch) /\ UNCHANGED <<kind, up, list, blocked>>

\* A heartbeat on a dead line lowers connected; the synchronous one dials another server.
Beat ==
  /\ connected /\ last \notin up
  /\ IF kind = "async" \/ Answering(Primary, SkippedByBeat) = {}
       THEN connected' = FALSE /\ UNCHANGED last
       ELSE last' = FirstAnswering(Primary, SkippedByBeat) /\ UNCHANGED connected
  /\ UNCHANGED <<kind, up, list, blocked>>

\* The lists that only the synchronous client has.
BlockServer(s) == kind = "sync" /\ blocked' = blocked \cup {s} /\ UNCHANGED <<kind, up, list, last, connected>>
UnblockServer(s) == blocked' = blocked \ {s} /\ UNCHANGED <<kind, up, list, last, connected>>
ClearBlocked == blocked' = {} /\ UNCHANGED <<kind, up, list, last, connected>>

\* set_servers, reorder_servers; add_server with a server put in front of the list.
SetServers(l) ==
  /\ kind = "sync" /\ l \in Lists
  /\ list' = l
  /\ UNCHANGED <<kind, up, blocked, last, connected>>

AddServer(s) == SetServers(<<s>> \o list)

\* External: a server fails or comes back.
Toggle(s) ==
  /\ up' = IF s \in up THEN up \ {s} ELSE up \cup {s}
  /\ UNCHANGED <<kind, list, blocked, last, connected>>

=============================================================================
