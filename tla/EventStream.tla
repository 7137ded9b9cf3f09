----------------------------- MODULE EventStream -----------------------------
(***************************************************************************)
(* api.py's event stream over the journal: a request thread that reads     *)
(* batches of events and the status in turn and writes to a connection, a  *)
(* client that follows it and reconnects with ?after=N when it ends, a     *)
(* connection that may break.                                              *)
(***************************************************************************)
EXTENDS Journal

CONSTANTS
  BatchLimit,  \* events list_events returns at most: 1,000
  MaxDrops     \* bound: broken connections

ASSUME StreamAssumption == BatchLimit \in Nat \ {0} /\ MaxDrops \in Nat

VARIABLES
  server,  \* the request thread: where it is, and its cursor
  pipe,    \* what was written and not received: sequence numbers
  got,     \* what the client received: sequence numbers
  drops    \* broken connections so far

stream == <<server, pipe, got, drops>>
streamVars == <<vars, stream>>

LastOr(s, default) == IF s = <<>> THEN default ELSE s[Len(s)]
Ascending(S) ==
  CHOOSE s \in [1..Cardinality(S) -> S] : \A i, j \in DOMAIN s : i < j => s[i] < s[j]

(* list_events and the writes of its events, one cursor step each.  A      *)
(* connection that breaks amid the writes loses what is in the pipe.       *)
StreamBatch ==
  LET batch == Ascending(DOMAIN Listed(server.cursor, BatchLimit)) IN
  /\ server.pc = "read"
  /\ pipe' = pipe \o batch
  /\ server' = [server EXCEPT !.pc = "status", !.cursor = LastOr(batch, @)]
  /\ UNCHANGED <<vars, got, drops>>

(* get_state, after the events: a terminal run ends the stream, also when  *)
(* it has events the batch did not.  Otherwise the loop sleeps and goes    *)
(* round, unless its 30 seconds are over.                                  *)
StreamStatus ==
  /\ server.pc = "status"
  /\ \E next \in {"read", "closed"} :
       /\ projection.status = "terminal" => next = "closed"
       /\ server' = [server EXCEPT !.pc = next]
  /\ UNCHANGED <<vars, pipe, got, drops>>

Receive ==
  /\ pipe # <<>>
  /\ got' = Append(got, Head(pipe)) /\ pipe' = Tail(pipe)
  /\ UNCHANGED <<vars, server, drops>>

(* Mutated forms of Reconnect: from now on, as if the stream were live     *)
(* only; without ?after, from the beginning.                               *)
ReconnectFromNow ==
  /\ server.pc = "closed" /\ pipe = <<>>
  /\ server' = [pc |-> "read", cursor |-> Newest(events)]
  /\ UNCHANGED <<vars, pipe, got, drops>>
ReconnectFromStart ==
  /\ server.pc = "closed" /\ pipe = <<>>
  /\ server' = [pc |-> "read", cursor |-> 0]
  /\ UNCHANGED <<vars, pipe, got, drops>>

(* The client has read the stream to its end and asks again, after the     *)
(* last event it has.                                                      *)
Reconnect ==
  /\ server.pc = "closed" /\ pipe = <<>>
  /\ server' = [pc |-> "read", cursor |-> LastOr(got, 0)]
  /\ UNCHANGED <<vars, pipe, got, drops>>

Drop ==
  /\ drops < MaxDrops /\ server.pc # "closed"
  /\ drops' = drops + 1
  /\ server' = [server EXCEPT !.pc = "closed"]
  /\ pipe' = <<>>
  /\ UNCHANGED <<vars, got>>

StreamStep == StreamBatch \/ StreamStatus \/ Receive \/ Reconnect

StreamInit ==
  /\ Init
  /\ server = [pc |-> "closed", cursor |-> 0]
  /\ pipe = <<>> /\ got = <<>> /\ drops = 0

StreamNext ==
  \/ Next /\ UNCHANGED stream
  \/ StreamStep \/ Drop

(* The server's thread, the network and the client go on; no transition,   *)
(* no reader and no damage has to happen.                                  *)
StreamFairness ==
  /\ WF_streamVars(StreamBatch) /\ WF_streamVars(StreamStatus)
  /\ WF_streamVars(Receive) /\ WF_streamVars(Reconnect)

StreamSpec == StreamInit /\ [][StreamNext]_streamVars /\ StreamFairness

------------------------------------------------------------------------------
(* A client never receives an event twice, none before an earlier one, and *)
(* leaves none out that was not lost from the table: over any number of    *)
(* connections, each with its own cursor (api.py, _stream_events).         *)
ReceivedInOrder ==
  /\ \A i, j \in DOMAIN got : i < j => got[i] < got[j]
  /\ damage = 0 => \A i \in DOMAIN got : got[i] = i

(* Every event of the journal reaches a client that keeps reconnecting,    *)
(* also those a terminal run's stream was closed before, or in the middle  *)
(* of (failure-semantics.md: consumers reconnect with the last sequence).  *)
EventsArrive ==
  \A n \in Seqs :
    n \in DOMAIN events ~> n \notin DOMAIN events \/ LastOr(got, 0) >= n

==============================================================================
