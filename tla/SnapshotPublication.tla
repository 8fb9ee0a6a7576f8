------------------------- MODULE SnapshotPublication -------------------------
(***************************************************************************)
(* How snapshots get from the game into the sidecar: several threads of    *)
(* each Lich bridge (lich/lab-bridge.lic, publish_snapshot) post to        *)
(* POST /v1/state, whose handler threads (src/lich_agent_bridge/server.py) *)
(* run LabHTTPServer.publish_snapshot under the state-admission lock and   *)
(* then, outside of it, the watcher reducer (watchers.py) and the events   *)
(* it emits.  Two bridges of one character overlap during a reconnect.     *)
(*                                                                         *)
(* A bridge is its session generation.  The content of a snapshot is the   *)
(* version of the game state it was taken from.  The 15 second heartbeat   *)
(* lets a bridge publish at any time.  Watchers are reduced to one         *)
(* condition that holds in the Alarming contents.                          *)
(***************************************************************************)
EXTENDS WorldState, FiniteSets

CONSTANTS
    Threads,   \* publishing threads of a bridge: publish_loop, workers
    Alarming   \* the contents in which the watched condition holds

ASSUME AlarmingContents == Alarming \subseteq Contents

VARIABLES
    game,       \* the game's present content
    thread,     \* [bridge, thread] -> where publish_snapshot is
    nextSeq,    \* @snapshot_sequence of each bridge
    rejected,   \* @snapshot_generation_rejected of each bridge
    request,    \* [bridge, sequence] -> the POST on its way through the server
    lock,       \* the request that holds _state_admission_lock, or NoRequest
    brokerGen,  \* ActionBroker._active_generations
    watcher     \* the reducer's state: generation, sequence, active alert

serverVars == <<lock, brokerGen, watcher>>
bridgeVars == <<game, thread, nextSeq, rejected>>
vars == <<worldVars, serverVars, bridgeVars, request>>

NoRequest == <<NoGeneration, 0>>
Idle == [at |-> "idle", seq |-> 0, content |-> NoContent]
NotSent == [phase |-> "none", content |-> NoContent]
Replies == {"ok", "conflict", "invalid"}
Phases == {"none", "sent", "published", "admitted", "alerting"} \cup Replies

PublicationTypeOK ==
    /\ TypeOK
    /\ game \in Contents
    /\ thread \in [Generations \X Threads ->
         [at: {"idle", "sampled", "waiting"}, seq: 0..MaxSequence, content: Contents \cup {NoContent}]]
    /\ nextSeq \in [Generations -> 0..MaxSequence]
    /\ rejected \in [Generations -> BOOLEAN]
    /\ request \in [Generations \X (1..MaxSequence) ->
         [phase: Phases, content: Contents \cup {NoContent}]]
    /\ lock \in {NoRequest} \cup (Generations \X (1..MaxSequence))
    /\ brokerGen \in Generations \cup {NoGeneration}
    /\ watcher \in [generation: Generations \cup {NoGeneration}, sequence: 0..MaxSequence,
                    active: BOOLEAN]

-----------------------------------------------------------------------------
(* The bridge.                                                             *)

GameChanges ==
    /\ \E d \in Contents : game' = d
    /\ UNCHANGED <<worldVars, serverVars, thread, nextSeq, rejected, request>>

\* publish_snapshot begins: the state is extracted first.
Sample(b, t) ==
    /\ thread[<<b, t>>].at = "idle"
    /\ ~rejected[b]
    /\ thread' = [thread EXCEPT ![<<b, t>>] = [at |-> "sampled", seq |-> 0, content |-> game]]
    /\ UNCHANGED <<worldVars, serverVars, game, nextSeq, rejected, request>>

\* The sequence number is taken when the request is made.
Post(b, t) ==
    /\ thread[<<b, t>>].at = "sampled"
    /\ nextSeq[b] < MaxSequence
    /\ nextSeq' = [nextSeq EXCEPT ![b] = @ + 1]
    /\ thread' = [thread EXCEPT ![<<b, t>>].at = "waiting", ![<<b, t>>].seq = nextSeq[b] + 1]
    /\ request' = [request EXCEPT ![<<b, nextSeq[b] + 1>>] =
                     [phase |-> "sent", content |-> thread[<<b, t>>].content]]
    /\ UNCHANGED <<worldVars, serverVars, game, rejected>>

\* The reply arrives; any 409 is taken for a rejected session generation.
Receive(b, t) ==
    /\ thread[<<b, t>>].at = "waiting"
    /\ request[<<b, thread[<<b, t>>].seq>>].phase \in Replies
    /\ rejected' = [rejected EXCEPT ![b] =
                      @ \/ request[<<b, thread[<<b, t>>].seq>>].phase = "conflict"]
    /\ thread' = [thread EXCEPT ![<<b, t>>] = Idle]
    /\ UNCHANGED <<worldVars, serverVars, game, nextSeq, request>>

\* The read times out after 5 seconds; the server goes on with the request.
GiveUp(b, t) ==
    /\ thread[<<b, t>>].at = "waiting"
    /\ thread' = [thread EXCEPT ![<<b, t>>] = Idle]
    /\ UNCHANGED <<worldVars, serverVars, game, nextSeq, rejected, request>>

-----------------------------------------------------------------------------
(* The server.                                                             *)

Answer(g, s, reply) == request' = [request EXCEPT ![<<g, s>>].phase = reply]

\* Under the lock the world state refuses the snapshot.
Refuse(g, s) ==
    /\ request[<<g, s>>].phase = "sent"
    /\ lock = NoRequest
    /\ Conflicts(g, s)
    /\ Answer(g, s, "conflict")
    /\ UNCHANGED <<worldVars, serverVars, bridgeVars>>

\* Mutant of Publish: the admission lock is not taken.
PublishUnlocked(g, s) ==
    /\ request[<<g, s>>].phase = "sent"
    /\ PublishSnapshot(g, s, request[<<g, s>>].content)
    /\ UNCHANGED lock
    /\ Answer(g, s, "published")
    /\ UNCHANGED <<brokerGen, watcher, bridgeVars>>

\* Under the lock the world state admits it.
Publish(g, s) ==
    /\ request[<<g, s>>].phase = "sent"
    /\ lock = NoRequest
    /\ PublishSnapshot(g, s, request[<<g, s>>].content)
    /\ lock' = <<g, s>>
    /\ Answer(g, s, "published")
    /\ UNCHANGED <<brokerGen, watcher, bridgeVars>>

\* Still under the lock, the action broker follows.
AdmitToBroker(g, s) ==
    /\ request[<<g, s>>].phase = "published"
    /\ brokerGen' = g
    /\ lock' = NoRequest
    /\ Answer(g, s, "admitted")
    /\ UNCHANGED <<worldVars, watcher, bridgeVars>>

\* WatcherReducer.reduce: another generation starts from nothing, an older
\* sequence is refused, and only a change of the condition is emitted.
Condition(g, s) == request[<<g, s>>].content \in Alarming
WasActive(g) == watcher.generation = g /\ watcher.active
Reduce(g, s) ==
    /\ request[<<g, s>>].phase = "admitted"
    /\ IF watcher.generation = g /\ s <= watcher.sequence
       THEN Answer(g, s, "invalid") /\ UNCHANGED watcher
       ELSE /\ watcher' = [generation |-> g, sequence |-> s, active |-> Condition(g, s)]
            /\ Answer(g, s, IF Condition(g, s) = WasActive(g) THEN "ok" ELSE "alerting")
    /\ UNCHANGED <<worldVars, lock, brokerGen, bridgeVars>>

\* The alert becomes a meaningful event, unless its session was replaced.
PublishAlert(g, s) ==
    /\ request[<<g, s>>].phase = "alerting"
    /\ \/ /\ PublishEvent(g)
          /\ Answer(g, s, "ok")
       \/ /\ g # generation
          /\ Answer(g, s, "conflict")
          /\ UNCHANGED worldVars
    /\ UNCHANGED <<serverVars, bridgeVars>>

-----------------------------------------------------------------------------
PublicationInit ==
    /\ Init
    /\ game \in Contents
    /\ thread = [x \in Generations \X Threads |-> Idle]
    /\ nextSeq = [b \in Generations |-> 0]
    /\ rejected = [b \in Generations |-> FALSE]
    /\ request = [x \in Generations \X (1..MaxSequence) |-> NotSent]
    /\ lock = NoRequest
    /\ brokerGen = NoGeneration
    /\ watcher = [generation |-> NoGeneration, sequence |-> 0, active |-> FALSE]

PublicationNext ==
    \/ GameChanges
    \/ \E b \in Generations, t \in Threads :
         Sample(b, t) \/ Post(b, t) \/ Receive(b, t) \/ GiveUp(b, t)
    \/ \E g \in Generations, s \in 1..MaxSequence :
         Refuse(g, s) \/ Publish(g, s) \/ AdmitToBroker(g, s) \/ Reduce(g, s) \/ PublishAlert(g, s)

PublicationSpec == PublicationInit /\ [][PublicationNext]_vars

-----------------------------------------------------------------------------
(* Properties.                                                             *)

\* State publication and the broker's fence happen in the same order: whenever
\* the admission lock is free, the broker's session is the world state's.
BrokerFollowsWorld == lock = NoRequest => brokerGen = generation

\* Events of a replaced session never enter the ring after its replacement,
\* whatever the watchers of late requests still emit.
LateAlertsAreFenced ==
    [][cursor' # cursor =>
         events'[Len(events')].generation = generation']_vars

\* "snapshot generation rejected": a bridge that stops for a rejected
\* generation is one whose generation was replaced.
RejectedMeansReplaced == \A b \in Generations : rejected[b] => b \in retired
=============================================================================
