-------------------------------- MODULE Mqtt --------------------------------
(***************************************************************************)
(* The controller's MQTT integration: the configuration and its PATCH       *)
(* handler, the broker search over mDNS, the connection, the Home Assistant *)
(* announcement and the retained state (Controller/Mqtt, MqttServer).       *)
(*                                                                          *)
(* Two tasks share the service's fields without a lock: the main loop runs  *)
(* tick() in stages, and the network task runs onConnect, onDisconnect and  *)
(* the HTTP handler between any two of them.  A stage is one function of    *)
(* tick(); finer interleavings are not modelled.                            *)
(*                                                                          *)
(* Port, user, password and discovery prefix travel with the broker's host  *)
(* and are not told apart from it.  The client library and the brokers are  *)
(* external: an attempt to connect ends in onConnect or in onDisconnect, a  *)
(* second connect() during one is ignored, disconnect(true) runs            *)
(* onDisconnect before it returns, and a broker publishes the will of a     *)
(* session that ends that way.                                              *)
(***************************************************************************)
EXTENDS Integers, Sequences, FiniteSets

CONSTANTS Hosts,        \* brokers
          Announced,    \* the brokers that answer mDNS queries
          NoHost,       \* the empty broker string
          DefaultTopic, \* "lightnet/<device id>"
          Topics,       \* topic prefixes a user may configure
          NoTopic,      \* the empty prefix
          Apps,         \* controller states: [playing, scene, rest]
          NoScene,      \* the scene "none"
          Unset,        \* a retained topic nobody has published
          Keep, Invalid,\* a PATCH field that is absent, or out of range
          Patches,      \* the PATCH bodies tried
          MaxPatches, MaxFaults, MaxChanges


VARIABLES config,  \* MqttConfigStore._record, always equal to the file
          svc,     \* the fields of MqttService
          disc,    \* the fields of MqttBrokerDiscovery
          client,  \* AsyncMqttClient (external)
          broker,  \* what every broker retains; the session's subscriptions and options
          pc,      \* the stage of tick() the main loop is at
          env,     \* WiFi, the state to publish, the scene list
          budget   \* what the environment may still do

vars == <<config, svc, disc, client, broker, pc, env, budget>>

Modes == {"manual", "auto", "mdns", "haHost"}

\* The fields of a PATCH body, each of which may be absent; port stands for what is
\* checked and not told apart.
Bodies == [enabled : BOOLEAN \cup {Keep}, mode : Modes \cup {Keep, Invalid},
           broker : Hosts \cup {NoHost, Keep}, port : {Keep, Invalid},
           prefix : Topics \cup {NoTopic, Keep}]

ASSUME MqttAssumption ==
  /\ DefaultTopic \in Topics /\ NoTopic \notin Topics
  /\ NoHost \notin Hosts /\ Announced \subseteq Hosts
  /\ Patches \subseteq Bodies
  /\ {MaxPatches, MaxFaults, MaxChanges} \subseteq Nat
Steps == <<"MqttService", "HomeAssistant", "Hassio">>
HaSteps == <<"POWER", "LIGHT", "SCENE", "PLAYING", "SPEED">>

TopicOf(prefix) == IF prefix = NoTopic THEN DefaultTopic ELSE prefix

(***************************************************************************)
(* The search for a broker.  "failing" are the steps whose query cannot be  *)
(* created; the chain then moves on at once.                                *)
(***************************************************************************)
IdleDisc == [state |-> "Idle", step |-> "None", mode |-> "manual",
             valid |-> FALSE, host |-> NoHost]

Cancel(d) == [d EXCEPT !.step = "None", !.state = "Idle"]

FinishSuccess(d, host) ==
  [d EXCEPT !.step = "None", !.state = "Done", !.valid = TRUE, !.host = host]

FinishFailure(d) ==
  [d EXCEPT !.step = "None", !.state = "Failed", !.valid = FALSE]

BeginStep(d, steps, failing) ==
  LET open == SelectSeq(steps, LAMBDA s : s \notin failing)
  IN IF open = << >> THEN FinishFailure(d) ELSE [d EXCEPT !.step = Head(open)]

AllowsMdnsBrowse(mode) == mode \in {"auto", "mdns"}
AllowsHaFallback(mode) == mode \in {"auto", "haHost"}

AdvanceChain(d, failing) ==
  CASE d.step = "MqttService" /\ AllowsHaFallback(d.mode) -> BeginStep(d, Tail(Steps), failing)
    [] d.step = "HomeAssistant" -> BeginStep(d, <<"Hassio">>, failing)
    [] OTHER -> FinishFailure(d)

StartDiscovery(mode, manualHost, failing) ==
  LET d == [Cancel(disc) EXCEPT !.mode = mode]
      s == [d EXCEPT !.state = "Searching"]
      haSteps == IF AllowsHaFallback(mode) THEN Tail(Steps) ELSE << >>
  IN IF manualHost # NoHost THEN FinishSuccess(d, manualHost)
     ELSE IF mode = "manual" THEN FinishFailure(d)
     ELSE IF AllowsMdnsBrowse(mode)
          THEN BeginStep(s, <<"MqttService">> \o haSteps, failing)
          ELSE BeginStep(s, haSteps, failing)

\* The answer of the open query: a host, or none (an empty answer, no IPv4 address).
PollSearch(d, answer, failing) ==
  IF answer # NoHost THEN FinishSuccess(d, answer) ELSE AdvanceChain(d, failing)

(***************************************************************************)
(* The parts of the service.                                                *)
(***************************************************************************)
InvalidateEndpoint(s) ==
  [s EXCEPT !.cached = FALSE, !.force = TRUE, !.phase = "IDLE", !.host = NoHost]

UseBrokerDiscovery == config.mode # "manual" /\ config.broker = NoHost

DisconnectKeepsPhase(s) ==
  [s EXCEPT !.connected = FALSE, !.haStep = "NONE", !.post = FALSE, !.due = FALSE]

OnDisconnect(s) ==
  [s EXCEPT !.connected = FALSE, !.phase = "IDLE", !.haStep = "NONE",
            !.post = FALSE, !.due = FALSE]

ConnectAnnouncesOnce(s) ==
  [s EXCEPT !.connected = TRUE, !.dirty = FALSE, !.force = FALSE, !.phase = "IDLE",
            !.haStep = IF s.last = Unset THEN "POWER" ELSE "DONE",
            !.due = TRUE, !.post = TRUE]

OnConnect(s) ==
  [s EXCEPT !.connected = TRUE, !.dirty = FALSE, !.force = FALSE, !.phase = "IDLE",
            !.haStep = "POWER", !.due = TRUE, !.post = TRUE]

\* onMessage takes a command under the prefix in use when it arrives.
Understood(topic) == topic = svc.topic

\* The broker's side of a session that ends: the will is published, subscriptions end.
SessionEnds ==
  broker' = IF client.state # "up" THEN broker
            ELSE [broker EXCEPT !.subs = {}, !.options = Unset,
                                !.status[client.host][client.will] = "offline"]

ClientOff == [client EXCEPT !.state = "off"]

DisconnectClient(s) ==
  [(IF client.state = "up" THEN OnDisconnect(s) ELSE s) EXCEPT
     !.connected = FALSE, !.phase = "IDLE", !.haStep = "NONE", !.post = FALSE]

\* connectToResolvedBroker: the client takes the host and the will; a running attempt goes on.
ConnectToResolvedBroker(host) ==
  client' = IF client.state = "off"
            THEN [state |-> "connecting", host |-> host, will |-> svc.topic]
            ELSE client

InitSvc == [connected |-> FALSE, dirty |-> TRUE, cached |-> FALSE, force |-> FALSE,
            post |-> FALSE, phase |-> "IDLE", due |-> TRUE, haStep |-> "NONE",
            host |-> NoHost, topic |-> DefaultTopic, last |-> Unset, hash |-> 0]

(***************************************************************************)
(* PATCH /api/mqtt, in the network task.  Each field is stored as it is     *)
(* read, so a body refused half way has already been stored in part.        *)
(***************************************************************************)
Take(old, field) == IF field = Keep THEN old ELSE field

PatchTaken(p) ==
  LET c1 == [config EXCEPT !.enabled = Take(@, p.enabled)]
      c2 == [c1 EXCEPT !.mode = Take(@, p.mode), !.broker = Take(@, p.broker)]
      c3 == [c2 EXCEPT !.prefix = Take(@, p.prefix)]
  IN IF p.mode = Invalid THEN c1 ELSE IF p.port = Invalid THEN c2 ELSE c3

BrokerRequired(c) == c.enabled /\ c.mode = "manual" /\ c.broker = NoHost

PatchAccepted(p) ==
  p.mode # Invalid /\ p.port # Invalid /\ ~BrokerRequired(PatchTaken(p))

NotifyOnlyInvalidates(s, c) == [InvalidateEndpoint(s) EXCEPT !.topic = TopicOf(c.prefix)]

NotifyConfigChanged(s, c) ==
  [InvalidateEndpoint(s) EXCEPT !.topic = TopicOf(c.prefix), !.dirty = TRUE, !.due = TRUE]

HandlePatchMqtt(p) ==
  /\ budget.patches > 0
  /\ budget' = [budget EXCEPT !.patches = @ - 1]
  /\ config' = PatchTaken(p)
  /\ IF PatchAccepted(p)
     THEN svc' = NotifyConfigChanged(svc, config') /\ disc' = Cancel(disc)
     ELSE UNCHANGED <<svc, disc>>
  /\ UNCHANGED <<client, broker, pc, env>>

(***************************************************************************)
(* The main loop's tick, stage by stage.                                    *)
(***************************************************************************)
TickConfig ==
  /\ pc = "config" /\ pc' = "connect"
  /\ IF svc.dirty
     THEN /\ svc' = [InvalidateEndpoint(DisconnectClient(svc)) EXCEPT
                       !.dirty = FALSE, !.due = TRUE]
          /\ disc' = Cancel(disc)
          /\ client' = ClientOff
          /\ SessionEnds
     ELSE UNCHANGED <<svc, disc, client, broker>>
  /\ UNCHANGED <<config, env, budget>>

Disabled ==
  /\ ~config.enabled
  /\ IF client.state = "up"
     THEN /\ svc' = DisconnectClient(svc) /\ disc' = Cancel(disc)
          /\ client' = ClientOff /\ SessionEnds
     ELSE UNCHANGED <<svc, disc, client, broker>>
  /\ UNCHANGED budget

MayConnect == config.enabled /\ env.wifi /\ client.state # "up" /\ svc.due

CannotConnect ==
  /\ config.enabled
  /\ ~MayConnect \/ svc.phase = "CONNECTING"
  /\ UNCHANGED <<svc, disc, client, broker, budget>>

ConnectIdle(failing) ==
  /\ MayConnect /\ svc.phase = "IDLE"
  /\ UNCHANGED broker
  /\ CASE svc.cached /\ ~svc.force ->
            /\ svc' = [svc EXCEPT !.phase = "CONNECTING"]
            /\ ConnectToResolvedBroker(svc.host)
            /\ UNCHANGED disc
       [] ~(svc.cached /\ ~svc.force) /\ UseBrokerDiscovery ->
            /\ disc' = StartDiscovery(config.mode, config.broker, failing)
            /\ svc' = [svc EXCEPT !.phase = "DISCOVERING"]
            /\ UNCHANGED client
       [] ~(svc.cached /\ ~svc.force) /\ ~UseBrokerDiscovery /\ config.broker = NoHost ->
            /\ svc' = [svc EXCEPT !.due = FALSE]
            /\ UNCHANGED <<disc, client>>
       [] OTHER ->
            /\ svc' = [svc EXCEPT !.host = config.broker, !.cached = TRUE,
                                  !.phase = "CONNECTING"]
            /\ ConnectToResolvedBroker(config.broker)
            /\ UNCHANGED disc

\* Discovering: poll the query, then take its result or give up for five seconds.
ConnectDiscovering(polled) ==
  /\ MayConnect /\ svc.phase = "DISCOVERING"
  /\ disc' = polled
  /\ UNCHANGED broker
  /\ CASE polled.state \notin {"Done", "Failed"} -> UNCHANGED <<svc, client>>
       [] polled.state = "Done" /\ polled.valid ->
            /\ svc' = [svc EXCEPT !.host = polled.host, !.cached = TRUE, !.force = FALSE,
                                  !.phase = "CONNECTING"]
            /\ ConnectToResolvedBroker(polled.host)
       [] OTHER -> /\ svc' = [svc EXCEPT !.phase = "IDLE", !.due = FALSE]
                   /\ UNCHANGED client

Charge == budget.faults > 0 /\ budget' = [budget EXCEPT !.faults = @ - 1]

\* A search that finds nothing is a fault, an empty answer on the way is not.
ChargeIf(failed) == IF failed THEN Charge ELSE UNCHANGED budget

RunConnectPhase ==
  /\ pc = "connect" /\ pc' = "post"
  /\ \/ Disabled
     \/ CannotConnect
     \/ \E failing \in SUBSET {"MqttService", "HomeAssistant", "Hassio"} :
          /\ ConnectIdle(failing)
          /\ ChargeIf(svc'.phase = "DISCOVERING" /\ disc'.state = "Failed")
     \/ UNCHANGED budget /\ ConnectDiscovering(disc)              \* no answer yet
     \/ /\ disc.state = "Searching"
        /\ \E answer \in Announced \cup {NoHost} :
             /\ ConnectDiscovering(PollSearch(disc, answer, {}))
             /\ ChargeIf(disc'.state = "Failed")
  /\ UNCHANGED <<config, env>>

SubscribeCommands(b) == [b EXCEPT !.subs = @ \cup {svc.topic}]

RunPostConnect ==
  /\ pc = "post" /\ pc' = "publish"
  /\ IF svc.connected /\ svc.post
     THEN /\ svc' = [svc EXCEPT !.post = FALSE]
          /\ broker' = SubscribeCommands([broker EXCEPT
                          !.status[client.host][svc.topic] = "online"])
     ELSE UNCHANGED <<svc, broker>>
  /\ UNCHANGED <<config, disc, client, env, budget>>

ComputeSceneListHash(list) == list + 1

\* What the five state topics say; state/scene is "none" unless a scene plays.
StateShown(a) == [a EXCEPT !.scene = IF a.playing THEN a.scene ELSE NoScene]

PublishFullState(b) == [b EXCEPT !.state[client.host][svc.topic] = StateShown(env.app)]

PublishOptions(b) == [b EXCEPT !.options = env.list]

\* One announcement every 200 ms; the last one is followed by the whole state.
AdvanceHaDiscovery ==
  IF svc.haStep = "SPEED"
  THEN /\ svc' = [svc EXCEPT !.haStep = "DONE", !.last = env.app]
       /\ broker' = PublishFullState(broker)
  ELSE LET i == CHOOSE k \in DOMAIN HaSteps : HaSteps[k] = svc.haStep
       IN /\ svc' = [svc EXCEPT !.haStep = HaSteps[i + 1]]
          /\ broker' = IF svc.haStep = "SCENE" THEN PublishOptions(broker) ELSE broker

\* Once a second: the state if it or the scene list changed, then the list's options.
PublishStateDiff ==
  LET hash == ComputeSceneListHash(env.list)
      b    == PublishFullState(broker)
  IN IF env.app = svc.last /\ hash = svc.hash THEN UNCHANGED <<svc, broker>>
     ELSE /\ svc' = [svc EXCEPT !.last = env.app, !.hash = hash]
          /\ broker' = IF hash # svc.hash THEN PublishOptions(b) ELSE b

Publishing == svc.connected /\ svc.haStep # "NONE"

Publish(due) ==
  /\ pc = "publish" /\ pc' = "config"
  /\ IF ~Publishing \/ ~due THEN UNCHANGED <<svc, broker>>
     ELSE IF svc.haStep = "DONE" THEN PublishStateDiff ELSE AdvanceHaDiscovery
  /\ UNCHANGED <<config, disc, client, env, budget>>

(***************************************************************************)
(* The network task, time, and the rest of the controller.                  *)
(***************************************************************************)
ClientConnects ==
  /\ client.state = "connecting" /\ env.wifi
  /\ client' = [client EXCEPT !.state = "up"]
  /\ svc' = OnConnect(svc)
  /\ broker' = [broker EXCEPT !.subs = {}, !.options = Unset]
  /\ UNCHANGED <<config, disc, pc, env, budget>>

ClientDrops ==
  /\ client.state # "off"
  /\ Charge
  /\ client' = ClientOff
  /\ svc' = OnDisconnect(svc)
  /\ SessionEnds
  /\ UNCHANGED <<config, disc, pc, env>>

TimePasses ==
  /\ ~svc.due
  /\ svc' = [svc EXCEPT !.due = TRUE]
  /\ UNCHANGED <<config, disc, client, broker, pc, env, budget>>

WifiChanges ==
  /\ ChargeIf(env.wifi)
  /\ env' = [env EXCEPT !.wifi = ~@]
  /\ UNCHANGED <<config, svc, disc, client, broker, pc>>

StateChanges ==
  /\ budget.changes > 0
  /\ budget' = [budget EXCEPT !.changes = @ - 1]
  /\ \E a \in Apps, l \in {0, 1} :
       <<a, l>> # <<env.app, env.list>> /\ env' = [env EXCEPT !.app = a, !.list = l]
  /\ UNCHANGED <<config, svc, disc, client, broker, pc>>

\* A reset: begin() runs again on the stored record.
Restart ==
  /\ Charge
  /\ svc' = [InitSvc EXCEPT !.topic = TopicOf(config.prefix)]
  /\ config' = [config EXCEPT !.prefix = TopicOf(@)]
  /\ disc' = IdleDisc
  /\ client' = ClientOff
  /\ SessionEnds
  /\ pc' = "config"
  /\ UNCHANGED env

InitConfigs == {[enabled |-> e, mode |-> "auto", broker |-> NoHost, prefix |-> DefaultTopic] :
                  e \in BOOLEAN}

Init ==
  /\ config \in InitConfigs
  /\ svc = InitSvc /\ disc = IdleDisc
  /\ client = [state |-> "off", host |-> NoHost, will |-> DefaultTopic]
  /\ broker = [status  |-> [h \in Hosts |-> [t \in Topics |-> Unset]],
               state   |-> [h \in Hosts |-> [t \in Topics |-> Unset]],
               options |-> Unset, subs |-> {}]
  /\ pc = "config"
  /\ \E a \in Apps : env = [wifi |-> TRUE, app |-> a, list |-> 0]
  /\ budget = [patches |-> MaxPatches, faults |-> MaxFaults, changes |-> MaxChanges]

Next ==
  \/ TickConfig \/ RunConnectPhase \/ RunPostConnect \/ \E due \in BOOLEAN : Publish(due)
  \/ ClientConnects \/ ClientDrops \/ TimePasses \/ WifiChanges \/ StateChanges \/ Restart
  \/ \E p \in Patches : HandlePatchMqtt(p)

(***************************************************************************)
(* The loop keeps running, time passes (so the publishing gates open again  *)
(* and again), an open query is answered, WiFi comes back, and an attempt   *)
(* that is not refused succeeds.                                            *)
(***************************************************************************)
Answered == RunConnectPhase /\ (disc.state = "Searching" => disc' # disc)

Fairness ==
  /\ WF_vars(TickConfig) /\ WF_vars(RunPostConnect)
  /\ WF_vars(RunConnectPhase) /\ SF_vars(Answered)
  /\ WF_vars(\E due \in BOOLEAN : Publish(due)) /\ SF_vars(Publish(TRUE))
  /\ WF_vars(ClientConnects) /\ WF_vars(TimePasses) /\ WF_vars(~env.wifi /\ WifiChanges)

Spec == Init /\ [][Next]_vars /\ Fairness

-----------------------------------------------------------------------------
(***************************************************************************)
(* Properties.                                                              *)
(***************************************************************************)
\* onMessage knows a command by the prefix in use now, subscribeCommands asked
\* for it under the prefix of its time.  Whenever a session has been set up and
\* no configuration change is waiting for the next tick, the broker delivers
\* the commands this controller understands, whatever PATCHes, drops and
\* restarts came before.
CommandsAreHeard ==
  svc.connected /\ ~svc.post /\ ~svc.dirty => \E t \in broker.subs : Understood(t)

\* publishStateDiff publishes only what differs from the values it remembers.
\* That is right only if the broker it is connected to retains these values
\* under the current prefix, so a new broker, a new prefix or a new session
\* must not inherit the memory of the old one.
MemoryIsRetained ==
  svc.connected /\ svc.haStep = "DONE" /\ ~svc.dirty =>
    broker.state[client.host][svc.topic] = StateShown(svc.last)

Settled ==
  /\ svc.connected
  /\ broker.status[client.host][svc.topic] = "online"
  /\ svc.topic \in broker.subs
  /\ broker.state[client.host][svc.topic] = StateShown(env.app)

Reachable == config.enabled /\ (config.mode = "manual" => config.broker # NoHost)

\* Whatever sequence of refused attempts, unanswered queries, drops, WiFi
\* losses, PATCHes and restarts came first: if MQTT stays enabled with a broker
\* named or discoverable, the service ends up online with the current state
\* retained, and if it stays disabled the session is gone for good.
SettlesAfterTrouble ==
  /\ <>[]Reachable => <>[]Settled
  /\ <>[](~config.enabled) => <>[](client.state # "up")
=============================================================================
