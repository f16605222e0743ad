----------------------------- MODULE Mqtt_proofs -----------------------------
(***************************************************************************)
(* Theorems about Mqtt, for any brokers, prefixes, controller states and   *)
(* PATCH bodies and any number of faults: a session that is set up hears    *)
(* the commands this controller understands (CommandsHeard), and the state  *)
(* the service remembers having published is the one the broker it is       *)
(* connected to retains (MemoryTrue).                                       *)
(***************************************************************************)
EXTENDS Mqtt, TLAPS

HostNames == Hosts \cup {NoHost}
Announcing == {"POWER", "LIGHT", "SCENE", "PLAYING", "SPEED"}
Shown == {StateShown(a) : a \in Apps}

Configs  == [enabled : BOOLEAN, mode : Modes, broker : HostNames, prefix : Topics \cup {NoTopic}]
Services == [connected : BOOLEAN, dirty : BOOLEAN, cached : BOOLEAN, force : BOOLEAN,
             post : BOOLEAN, phase : {"IDLE", "DISCOVERING", "CONNECTING"}, due : BOOLEAN,
             haStep : Announcing \cup {"NONE", "DONE"}, host : HostNames, topic : Topics,
             last : Apps \cup {Unset}, hash : Nat]
Clients  == [state : {"off", "connecting", "up"}, host : HostNames, will : Topics]
Brokers  == [status  : [Hosts -> [Topics -> {"online", "offline", Unset}]],
             state   : [Hosts -> [Topics -> Shown \cup {Unset}]],
             options : {0, 1, Unset}, subs : SUBSET Topics]

\* A search: the step it is at is left open (it comes out of a recursive selection),
\* what it has found is a host.
IsSearch(d) ==
  /\ d \in [state : {"Idle", "Searching", "Done", "Failed"}, step : {d.step}, mode : Modes,
            valid : BOOLEAN, host : HostNames]
  /\ d.valid => d.host \in Hosts

TypeInv ==
  /\ config \in Configs /\ svc \in Services /\ IsSearch(disc) /\ client \in Clients
  /\ broker \in Brokers /\ pc \in {"config", "connect", "post", "publish"}
  /\ env \in [wifi : BOOLEAN, app : Apps, list : {0, 1}]
  /\ budget \in [patches : Nat, faults : Nat, changes : Nat]

\* The service knows whether there is a session, an attempt has a host to go to, and so
\* has the address kept from the last search.
SessionInv ==
  /\ svc.connected <=> client.state = "up"
  /\ client.state # "off" => client.host \in Hosts
  /\ svc.cached => svc.host \in Hosts

MqttInv == TypeInv /\ SessionInv /\ CommandsAreHeard /\ MemoryIsRetained

-----------------------------------------------------------------------------
(* What the parts of the service do to its fields.                          *)

\* The address in use is forgotten, the session is not touched (invalidateEndpoint).
LEMMA Invalidated ==
  ASSUME NEW s \in Services
  PROVE  /\ InvalidateEndpoint(s) \in Services /\ ~InvalidateEndpoint(s).cached
         /\ InvalidateEndpoint(s).connected = s.connected
         /\ InvalidateEndpoint(s).post = s.post /\ InvalidateEndpoint(s).topic = s.topic
         /\ InvalidateEndpoint(s).dirty = s.dirty
  BY DEF InvalidateEndpoint, Services, HostNames

LEMMA Disconnected ==
  ASSUME NEW s \in Services
  PROVE  /\ OnDisconnect(s) \in Services /\ ~OnDisconnect(s).connected
         /\ OnDisconnect(s).cached = s.cached /\ OnDisconnect(s).host = s.host
         /\ OnDisconnect(s).topic = s.topic
  BY DEF OnDisconnect, Services

LEMMA ClientDisconnected ==
  ASSUME svc \in Services
  PROVE  /\ DisconnectClient(svc) \in Services /\ ~DisconnectClient(svc).connected
         /\ DisconnectClient(svc).cached = svc.cached /\ DisconnectClient(svc).host = svc.host
         /\ DisconnectClient(svc).topic = svc.topic
<1> DEFINE s == IF client.state = "up" THEN OnDisconnect(svc) ELSE svc
<1>1. s \in Services /\ s.cached = svc.cached /\ s.host = svc.host /\ s.topic = svc.topic
  BY Disconnected
<1>2. DisconnectClient(svc) = [s EXCEPT !.connected = FALSE, !.phase = "IDLE",
                                        !.haStep = "NONE", !.post = FALSE]
  BY DEF DisconnectClient
<1> HIDE DEF s
<1> QED
  BY <1>1, <1>2 DEF Services

\* A session that ends takes its subscriptions along, not the state retained.
LEMMA SessionEnded ==
  ASSUME TypeInv, SessionInv, SessionEnds
  PROVE  broker' \in Brokers
<1>1. CASE client.state = "up"
  <2>1. client.host \in Hosts /\ client.will \in Topics
    BY <1>1 DEF TypeInv, SessionInv, Clients
  <2>2. [broker.status EXCEPT ![client.host][client.will] = "offline"]
          \in [Hosts -> [Topics -> {"online", "offline", Unset}]]
    BY <2>1 DEF TypeInv, Brokers
  <2>3. broker' = [broker EXCEPT !.subs = {}, !.options = Unset,
                     !.status = [broker.status EXCEPT ![client.host][client.will] = "offline"]]
    BY <1>1 DEF SessionEnds, TypeInv, Brokers
  <2> HIDE DEF SessionEnds
  <2> QED
    BY <2>2, <2>3 DEF TypeInv, Brokers
<1>2. CASE client.state # "up"
  BY <1>2 DEF SessionEnds, TypeInv
<1> QED
  BY <1>1, <1>2

\* The client is off, and with it the session: there is nothing to hear and nothing to
\* remember.
LEMMA Off ==
  ASSUME TypeInv, SessionInv, client' = ClientOff, SessionEnds, svc' \in Services, ~svc'.connected,
         svc'.cached => svc'.host \in Hosts, config' \in Configs, IsSearch(disc'),
         pc' \in {"config", "connect", "post", "publish"},
         env' \in [wifi : BOOLEAN, app : Apps, list : {0, 1}],
         budget' \in [patches : Nat, faults : Nat, changes : Nat]
  PROVE  MqttInv'
<1>1. client' \in Clients /\ client'.state = "off"
  BY DEF ClientOff, Clients, TypeInv
<1>2. broker' \in Brokers
  BY SessionEnded
<1>3. TypeInv' /\ SessionInv'
  BY <1>1, <1>2 DEF TypeInv, SessionInv
<1> QED
  BY <1>3 DEF MqttInv, CommandsAreHeard, MemoryIsRetained

-----------------------------------------------------------------------------
(* The search for a broker.                                                 *)

LEMMA Cancelled == ASSUME NEW d, IsSearch(d) PROVE IsSearch(Cancel(d))
  BY DEF IsSearch, Cancel

LEMMA Succeeds == ASSUME NEW d, IsSearch(d), NEW h \in Hosts PROVE IsSearch(FinishSuccess(d, h))
  BY DEF IsSearch, FinishSuccess, HostNames

LEMMA Fails == ASSUME NEW d, IsSearch(d) PROVE IsSearch(FinishFailure(d))
  BY DEF IsSearch, FinishFailure

LEMMA StepBegun ==
  ASSUME NEW d, IsSearch(d), NEW steps, NEW failing
  PROVE  IsSearch(BeginStep(d, steps, failing))
<1>1. PICK open : BeginStep(d, steps, failing) = IF open = << >> THEN FinishFailure(d)
                                                 ELSE [d EXCEPT !.step = Head(open)]
  BY DEF BeginStep
<1>2. IsSearch([d EXCEPT !.step = Head(open)])
  BY DEF IsSearch
<1> QED
  BY <1>1, <1>2, Fails

LEMMA ChainAdvanced ==
  ASSUME NEW d, IsSearch(d), NEW failing PROVE IsSearch(AdvanceChain(d, failing))
<1>1. AdvanceChain(d, failing) \in {BeginStep(d, Tail(Steps), failing),
                                    BeginStep(d, <<"Hassio">>, failing), FinishFailure(d)}
  BY DEF AdvanceChain
<1> QED
  BY <1>1, StepBegun, Fails

LEMMA SearchStarted ==
  ASSUME TypeInv, NEW failing PROVE IsSearch(StartDiscovery(config.mode, config.broker, failing))
<1> DEFINE d == [Cancel(disc) EXCEPT !.mode = config.mode]
           s == [d EXCEPT !.state = "Searching"]
           haSteps == IF AllowsHaFallback(config.mode) THEN Tail(Steps) ELSE << >>
<1>1. IsSearch(d) /\ IsSearch(s)
  BY Cancelled DEF TypeInv, Configs, IsSearch
<1>2. config.broker # NoHost => config.broker \in Hosts
  BY DEF TypeInv, Configs, HostNames
<1>3. StartDiscovery(config.mode, config.broker, failing)
        = IF config.broker # NoHost THEN FinishSuccess(d, config.broker)
          ELSE IF config.mode = "manual" THEN FinishFailure(d)
          ELSE IF AllowsMdnsBrowse(config.mode)
               THEN BeginStep(s, <<"MqttService">> \o haSteps, failing)
               ELSE BeginStep(s, haSteps, failing)
  BY DEF StartDiscovery
<1> HIDE DEF d, s, haSteps
<1> QED
  BY <1>1, <1>2, <1>3, Succeeds, Fails, StepBegun

LEMMA Polled ==
  ASSUME TypeInv, NEW answer \in Announced \cup {NoHost}
  PROVE  IsSearch(PollSearch(disc, answer, {}))
<1>1. IsSearch(disc) /\ (answer # NoHost => answer \in Hosts)
  BY MqttAssumption DEF TypeInv
<1> QED
  BY <1>1, Succeeds, ChainAdvanced DEF PollSearch

-----------------------------------------------------------------------------
(* The configuration.                                                       *)

\* What a body leaves behind, accepted or refused half way, is a configuration.
LEMMA PatchTyped == ASSUME TypeInv, NEW p \in Patches PROVE PatchTaken(p) \in Configs
<1>1. p \in Bodies /\ config \in Configs
  BY MqttAssumption DEF TypeInv
<1> DEFINE c1 == [config EXCEPT !.enabled = Take(@, p.enabled)]
           c2 == [c1 EXCEPT !.mode = Take(@, p.mode), !.broker = Take(@, p.broker)]
           c3 == [c2 EXCEPT !.prefix = Take(@, p.prefix)]
<1>2. c1 \in Configs
  BY <1>1 DEF Configs, Take, Bodies
<1>3. p.mode # Invalid => c2 \in Configs
  BY <1>1, <1>2 DEF Configs, Take, Bodies, HostNames
<1>4. p.mode # Invalid => c3 \in Configs
  BY <1>1, <1>3 DEF Configs, Take, Bodies
<1>5. PatchTaken(p) = IF p.mode = Invalid THEN c1 ELSE IF p.port = Invalid THEN c2 ELSE c3
  BY DEF PatchTaken
<1> HIDE DEF c1, c2, c3
<1> QED
  BY <1>2, <1>3, <1>4, <1>5

LEMMA PatchKeeps == ASSUME MqttInv, NEW p \in Patches, HandlePatchMqtt(p) PROVE MqttInv'
<1>1. /\ TypeInv /\ SessionInv /\ config' \in Configs /\ config' = PatchTaken(p)
      /\ UNCHANGED <<client, broker, pc, env>>
      /\ budget' \in [patches : Nat, faults : Nat, changes : Nat]
  BY PatchTyped DEF MqttInv, HandlePatchMqtt, TypeInv
<1>2. CASE PatchAccepted(p)
  <2>1. svc' = NotifyConfigChanged(svc, config') /\ disc' = Cancel(disc)
    BY <1>2 DEF HandlePatchMqtt
  <2>2. TopicOf(config'.prefix) \in Topics
    BY <1>1, MqttAssumption DEF TopicOf, Configs
  <2>3. svc' \in Services /\ svc'.dirty /\ ~svc'.cached /\ svc'.connected = svc.connected
    <3> DEFINE i == InvalidateEndpoint(svc)
    <3>1. i \in Services /\ ~i.cached /\ i.connected = svc.connected
      BY <1>1, Invalidated DEF TypeInv
    <3>2. svc' = [i EXCEPT !.topic = TopicOf(config'.prefix), !.dirty = TRUE, !.due = TRUE]
      BY <2>1 DEF NotifyConfigChanged
    <3> HIDE DEF i
    <3> QED
      BY <2>2, <3>1, <3>2 DEF Services
  <2>4. IsSearch(disc')
    BY <1>1, <2>1, Cancelled DEF TypeInv
  <2>5. TypeInv' /\ SessionInv'
    BY <1>1, <2>3, <2>4 DEF TypeInv, SessionInv
  <2> QED
    BY <2>3, <2>5 DEF MqttInv, CommandsAreHeard, MemoryIsRetained
<1>3. CASE ~PatchAccepted(p)
  <2>1. UNCHANGED <<svc, disc>>
    BY <1>3 DEF HandlePatchMqtt
  <2>2. TypeInv' /\ SessionInv'
    BY <1>1, <2>1 DEF TypeInv, SessionInv
  <2>3. CommandsAreHeard' /\ MemoryIsRetained'
    BY <1>1, <2>1 DEF MqttInv, CommandsAreHeard, MemoryIsRetained, Understood, StateShown
  <2> QED
    BY <2>2, <2>3 DEF MqttInv
<1> QED
  BY <1>2, <1>3

-----------------------------------------------------------------------------
(* The main loop's tick.                                                    *)

\* A configuration change ends the session before it is forgotten.
LEMMA ConfigKeeps == ASSUME MqttInv, TickConfig PROVE MqttInv'
<1>1. TypeInv /\ SessionInv /\ pc' = "connect" /\ UNCHANGED <<config, env, budget>>
  BY DEF MqttInv, TickConfig
<1>2. CASE svc.dirty
  <2> DEFINE s == DisconnectClient(svc)
  <2>1. /\ svc' = [InvalidateEndpoint(s) EXCEPT !.dirty = FALSE, !.due = TRUE]
        /\ disc' = Cancel(disc) /\ client' = ClientOff /\ SessionEnds
    BY <1>2 DEF TickConfig
  <2>2. s \in Services /\ ~s.connected
    BY <1>1, ClientDisconnected DEF TypeInv
  <2> HIDE DEF s
  <2>3. svc' \in Services /\ ~svc'.connected /\ ~svc'.cached
    <3> DEFINE i == InvalidateEndpoint(s)
    <3>1. i \in Services /\ ~i.cached /\ ~i.connected
      BY <2>2, Invalidated
    <3>2. svc' = [i EXCEPT !.dirty = FALSE, !.due = TRUE]
      BY <2>1
    <3> HIDE DEF i
    <3> QED
      BY <3>1, <3>2 DEF Services
  <2>4. IsSearch(disc') /\ config' \in Configs /\ pc' \in {"config", "connect", "post", "publish"}
        /\ env' \in [wifi : BOOLEAN, app : Apps, list : {0, 1}]
        /\ budget' \in [patches : Nat, faults : Nat, changes : Nat]
    BY <1>1, <2>1, Cancelled DEF TypeInv
  <2> QED
    BY <1>1, <2>1, <2>3, <2>4, Off
<1>3. CASE ~svc.dirty
  <2>1. UNCHANGED <<svc, disc, client, broker>>
    BY <1>3 DEF TickConfig
  <2>2. TypeInv' /\ SessionInv'
    BY <1>1, <2>1 DEF TypeInv, SessionInv
  <2>3. CommandsAreHeard' /\ MemoryIsRetained'
    BY <1>1, <2>1 DEF MqttInv, CommandsAreHeard, MemoryIsRetained, Understood, StateShown
  <2> QED
    BY <2>2, <2>3 DEF MqttInv
<1> QED
  BY <1>2, <1>3

\* Nothing of the session is touched while a connection is looked for: there is none.
LEMMA NotUp ==
  ASSUME TypeInv, SessionInv, client.state # "up", client' \in Clients, client'.state # "up",
         client'.state # "off" => client'.host \in Hosts, svc' \in Services, ~svc'.connected,
         svc'.cached => svc'.host \in Hosts, IsSearch(disc'),
         budget' \in [patches : Nat, faults : Nat, changes : Nat], pc' = "post",
         UNCHANGED <<config, broker, env>>
  PROVE  MqttInv'
<1>1. TypeInv' /\ SessionInv'
  BY DEF TypeInv, SessionInv
<1> QED
  BY <1>1 DEF MqttInv, CommandsAreHeard, MemoryIsRetained

LEMMA Connecting ==
  ASSUME TypeInv, SessionInv, client.state # "up", NEW h \in Hosts, ConnectToResolvedBroker(h)
  PROVE  client' \in Clients /\ client'.state # "up" /\ client'.state # "off"
         /\ client'.host \in Hosts
<1>1. svc.topic \in Topics /\ client \in Clients
  BY DEF TypeInv, Services
<1> QED
  BY <1>1 DEF ConnectToResolvedBroker, Clients, HostNames, SessionInv

LEMMA ChargeTyped ==
  ASSUME TypeInv, NEW b, ChargeIf(b) PROVE budget' \in [patches : Nat, faults : Nat, changes : Nat]
  BY DEF ChargeIf, Charge, TypeInv

LEMMA IdleKeeps ==
  ASSUME MqttInv, NEW failing, ConnectIdle(failing), pc' = "post", UNCHANGED <<config, env>>,
         budget' \in [patches : Nat, faults : Nat, changes : Nat]
  PROVE  MqttInv'
<1>1. /\ TypeInv /\ SessionInv /\ client.state # "up" /\ ~svc.connected /\ UNCHANGED broker
      /\ svc \in Services /\ client \in Clients /\ IsSearch(disc)
      /\ (config.broker = NoHost \/ config.broker \in Hosts)
  BY DEF MqttInv, ConnectIdle, MayConnect, SessionInv, TypeInv, Configs, HostNames
<1>2. CASE svc.cached /\ ~svc.force
  <2>1. /\ svc' = [svc EXCEPT !.phase = "CONNECTING"] /\ ConnectToResolvedBroker(svc.host)
        /\ UNCHANGED disc
    BY <1>2 DEF ConnectIdle
  <2>2. svc.host \in Hosts
    BY <1>1, <1>2 DEF SessionInv
  <2>3. svc' \in Services /\ ~svc'.connected /\ svc'.host \in Hosts
    BY <1>1, <2>1, <2>2 DEF Services
  <2> QED
    BY <1>1, <2>1, <2>2, <2>3, Connecting, NotUp
<1>3. CASE ~(svc.cached /\ ~svc.force) /\ UseBrokerDiscovery
  <2>1. /\ disc' = StartDiscovery(config.mode, config.broker, failing)
        /\ svc' = [svc EXCEPT !.phase = "DISCOVERING"] /\ UNCHANGED client
    BY <1>3 DEF ConnectIdle
  <2>2. svc' \in Services /\ ~svc'.connected /\ svc'.cached = svc.cached /\ svc'.host = svc.host
    BY <1>1, <2>1 DEF Services
  <2>3. (svc'.cached => svc'.host \in Hosts) /\ (client'.state # "off" => client'.host \in Hosts)
        /\ IsSearch(disc')
    BY <1>1, <2>1, <2>2, SearchStarted DEF SessionInv
  <2> QED
    BY <1>1, <2>1, <2>2, <2>3, NotUp
<1>4. CASE ~(svc.cached /\ ~svc.force) /\ ~UseBrokerDiscovery /\ config.broker = NoHost
  <2>1. svc' = [svc EXCEPT !.due = FALSE] /\ UNCHANGED <<disc, client>>
    BY <1>4 DEF ConnectIdle
  <2>2. svc' \in Services /\ ~svc'.connected /\ svc'.cached = svc.cached /\ svc'.host = svc.host
    BY <1>1, <2>1 DEF Services
  <2>3. (svc'.cached => svc'.host \in Hosts) /\ (client'.state # "off" => client'.host \in Hosts)
        /\ IsSearch(disc')
    BY <1>1, <2>1, <2>2 DEF SessionInv
  <2> QED
    BY <1>1, <2>1, <2>2, <2>3, NotUp
<1>5. CASE ~(svc.cached /\ ~svc.force) /\ ~UseBrokerDiscovery /\ config.broker # NoHost
  <2>1. /\ svc' = [svc EXCEPT !.host = config.broker, !.cached = TRUE, !.phase = "CONNECTING"]
        /\ ConnectToResolvedBroker(config.broker) /\ UNCHANGED disc
    BY <1>5 DEF ConnectIdle
  <2>2. config.broker \in Hosts
    BY <1>1, <1>5
  <2>3. svc' \in Services /\ ~svc'.connected /\ svc'.host \in Hosts
    BY <1>1, <2>1, <2>2 DEF Services, HostNames
  <2> QED
    BY <1>1, <2>1, <2>2, <2>3, Connecting, NotUp
<1> QED
  BY <1>2, <1>3, <1>4, <1>5

LEMMA DiscoveringKeeps ==
  ASSUME MqttInv, NEW polled, IsSearch(polled), ConnectDiscovering(polled), pc' = "post",
         UNCHANGED <<config, env>>, budget' \in [patches : Nat, faults : Nat, changes : Nat]
  PROVE  MqttInv'
<1>1. /\ TypeInv /\ SessionInv /\ client.state # "up" /\ ~svc.connected /\ UNCHANGED broker
      /\ svc \in Services /\ client \in Clients /\ disc' = polled
      /\ (client.state # "off" => client.host \in Hosts) /\ (svc.cached => svc.host \in Hosts)
  BY DEF MqttInv, ConnectDiscovering, MayConnect, SessionInv, TypeInv
<1>2. CASE polled.state \notin {"Done", "Failed"}
  <2>1. UNCHANGED <<svc, client>>
    BY <1>2 DEF ConnectDiscovering
  <2> QED
    BY <1>1, <2>1, NotUp
<1>3. CASE polled.state = "Done" /\ polled.valid
  <2>1. /\ svc' = [svc EXCEPT !.host = polled.host, !.cached = TRUE, !.force = FALSE,
                              !.phase = "CONNECTING"]
        /\ ConnectToResolvedBroker(polled.host)
    BY <1>3 DEF ConnectDiscovering
  <2>2. polled.host \in Hosts
    BY <1>3 DEF IsSearch
  <2>3. svc' \in Services /\ ~svc'.connected /\ svc'.host \in Hosts
    BY <1>1, <2>1, <2>2 DEF Services, HostNames
  <2> QED
    BY <1>1, <2>1, <2>2, <2>3, Connecting, NotUp
<1>4. CASE polled.state \in {"Done", "Failed"} /\ ~(polled.state = "Done" /\ polled.valid)
  <2>1. svc' = [svc EXCEPT !.phase = "IDLE", !.due = FALSE] /\ UNCHANGED client
    BY <1>4 DEF ConnectDiscovering
  <2>2. svc' \in Services /\ ~svc'.connected /\ svc'.cached = svc.cached /\ svc'.host = svc.host
    BY <1>1, <2>1 DEF Services
  <2> QED
    BY <1>1, <2>1, <2>2, NotUp
<1> QED
  BY <1>2, <1>3, <1>4

LEMMA ConnectKeeps == ASSUME MqttInv, RunConnectPhase PROVE MqttInv'
<1>1. TypeInv /\ SessionInv /\ pc' = "post" /\ UNCHANGED <<config, env>>
  BY DEF MqttInv, RunConnectPhase
<1>2. ASSUME UNCHANGED <<svc, disc, client, broker, budget>> PROVE MqttInv'
  <2>1. TypeInv' /\ SessionInv'
    BY <1>1, <1>2 DEF TypeInv, SessionInv
  <2>2. CommandsAreHeard' /\ MemoryIsRetained'
    BY <1>1, <1>2 DEF MqttInv, CommandsAreHeard, MemoryIsRetained, Understood, StateShown
  <2> QED
    BY <2>1, <2>2 DEF MqttInv
<1>3. CASE Disabled
  <2>1. CASE client.state = "up"
    <3>1. /\ svc' = DisconnectClient(svc) /\ disc' = Cancel(disc) /\ client' = ClientOff
          /\ SessionEnds /\ UNCHANGED budget
      BY <1>3, <2>1 DEF Disabled
    <3>2. svc' \in Services /\ ~svc'.connected /\ (svc'.cached => svc'.host \in Hosts)
      BY <1>1, <3>1, ClientDisconnected DEF TypeInv, SessionInv
    <3>3. /\ IsSearch(disc') /\ config' \in Configs
          /\ pc' \in {"config", "connect", "post", "publish"}
          /\ env' \in [wifi : BOOLEAN, app : Apps, list : {0, 1}]
          /\ budget' \in [patches : Nat, faults : Nat, changes : Nat]
      BY <1>1, <3>1, Cancelled DEF TypeInv
    <3> QED
      BY <1>1, <3>1, <3>2, <3>3, Off
  <2>2. CASE client.state # "up"
    BY <1>2, <1>3, <2>2 DEF Disabled
  <2> QED
    BY <2>1, <2>2
<1>4. CASE CannotConnect
  BY <1>2, <1>4 DEF CannotConnect
<1>5. ASSUME NEW failing, ConnectIdle(failing), NEW b, ChargeIf(b) PROVE MqttInv'
  <2>1. budget' \in [patches : Nat, faults : Nat, changes : Nat]
    BY <1>1, <1>5, ChargeTyped
  <2> QED
    BY <1>1, <1>5, <2>1, IdleKeeps
<1>6. CASE UNCHANGED budget /\ ConnectDiscovering(disc)
  <2>1. budget' \in [patches : Nat, faults : Nat, changes : Nat] /\ IsSearch(disc)
    BY <1>1, <1>6 DEF TypeInv
  <2> QED
    BY <1>1, <1>6, <2>1, DiscoveringKeeps
<1>7. ASSUME NEW answer \in Announced \cup {NoHost},
             ConnectDiscovering(PollSearch(disc, answer, {})), NEW b, ChargeIf(b)
      PROVE  MqttInv'
  <2>1. /\ budget' \in [patches : Nat, faults : Nat, changes : Nat]
        /\ IsSearch(PollSearch(disc, answer, {}))
    BY <1>1, <1>7, ChargeTyped, Polled
  <2> QED
    BY <1>1, <1>7, <2>1, DiscoveringKeeps
<1> QED
  BY <1>3, <1>4, <1>5, <1>6, <1>7 DEF RunConnectPhase

\* The setup of a session asks for the commands under the prefix in use.
LEMMA PostKeeps == ASSUME MqttInv, RunPostConnect PROVE MqttInv'
<1>1. TypeInv /\ SessionInv /\ pc' = "publish" /\ UNCHANGED <<config, disc, client, env, budget>>
  BY DEF MqttInv, RunPostConnect
<1>2. CASE svc.connected /\ svc.post
  <2>1. client.host \in Hosts /\ svc.topic \in Topics
    BY <1>1, <1>2 DEF SessionInv, TypeInv, Services
  <2> DEFINE st == [broker.status EXCEPT ![client.host][svc.topic] = "online"]
  <2>2. st \in [Hosts -> [Topics -> {"online", "offline", Unset}]]
    BY <1>1, <2>1 DEF TypeInv, Brokers
  <2>3. /\ svc' = [svc EXCEPT !.post = FALSE]
        /\ broker' = [[broker EXCEPT !.status = st] EXCEPT !.subs = @ \cup {svc.topic}]
    BY <1>2 DEF RunPostConnect, SubscribeCommands
  <2> HIDE DEF st
  <2>4. broker' \in Brokers /\ broker'.state = broker.state /\ svc.topic \in broker'.subs
    BY <1>1, <2>1, <2>2, <2>3 DEF TypeInv, Brokers
  <2>5. /\ svc' \in Services /\ svc'.connected = svc.connected /\ svc'.cached = svc.cached
        /\ svc'.host = svc.host /\ svc'.topic = svc.topic /\ svc'.dirty = svc.dirty
        /\ svc'.haStep = svc.haStep /\ svc'.last = svc.last
    BY <1>1, <2>3 DEF TypeInv, Services
  <2>6. TypeInv' /\ SessionInv'
    BY <1>1, <2>4, <2>5 DEF TypeInv, SessionInv
  <2>7. CommandsAreHeard' /\ MemoryIsRetained'
    BY <1>1, <2>4, <2>5 DEF MqttInv, CommandsAreHeard, MemoryIsRetained, Understood, StateShown
  <2> QED
    BY <2>6, <2>7 DEF MqttInv
<1>3. CASE ~(svc.connected /\ svc.post)
  <2>1. UNCHANGED <<svc, broker>>
    BY <1>3 DEF RunPostConnect
  <2>2. TypeInv' /\ SessionInv'
    BY <1>1, <2>1 DEF TypeInv, SessionInv
  <2>3. CommandsAreHeard' /\ MemoryIsRetained'
    BY <1>1, <2>1 DEF MqttInv, CommandsAreHeard, MemoryIsRetained, Understood, StateShown
  <2> QED
    BY <2>2, <2>3 DEF MqttInv
<1> QED
  BY <1>2, <1>3

\* Publishing the state makes the broker retain what the service remembers.
LEMMA Published ==
  ASSUME TypeInv, SessionInv, svc.connected
  PROVE  LET b == PublishFullState(broker)
         IN  /\ b \in Brokers /\ PublishOptions(b) \in Brokers /\ PublishOptions(broker) \in Brokers
             /\ b.state[client.host][svc.topic] = StateShown(env.app)
             /\ PublishOptions(b).state = b.state /\ PublishOptions(broker).state = broker.state
             /\ b.subs = broker.subs /\ PublishOptions(b).subs = broker.subs
             /\ PublishOptions(broker).subs = broker.subs
<1>1. /\ client.host \in Hosts /\ svc.topic \in Topics /\ env.app \in Apps /\ env.list \in {0, 1}
      /\ broker \in Brokers
  BY DEF SessionInv, TypeInv, Services
<1> DEFINE st == [broker.state EXCEPT ![client.host][svc.topic] = StateShown(env.app)]
           b  == PublishFullState(broker)
<1>2. StateShown(env.app) \in Shown
  BY <1>1 DEF Shown
<1>3. /\ st \in [Hosts -> [Topics -> Shown \cup {Unset}]]
      /\ st[client.host][svc.topic] = StateShown(env.app)
  BY <1>1, <1>2 DEF Brokers
<1>4. b = [broker EXCEPT !.state = st]
  BY DEF PublishFullState
<1> HIDE DEF st, b
<1>5. b \in Brokers /\ b.state = st /\ b.subs = broker.subs
  BY <1>1, <1>3, <1>4 DEF Brokers
<1> QED
  BY <1>1, <1>3, <1>5 DEF PublishOptions, Brokers, b

\* A step of the announcement that leaves the session as it is.
LEMMA SessionStays ==
  ASSUME MqttInv, svc' \in Services, broker' \in Brokers,
         pc' \in {"config", "connect", "post", "publish"},
         UNCHANGED <<config, disc, client, env, budget>>, broker'.subs = broker.subs,
         svc'.connected = svc.connected, svc'.cached = svc.cached, svc'.host = svc.host,
         svc'.topic = svc.topic, svc'.dirty = svc.dirty, svc'.post = svc.post,
         svc'.haStep = "DONE" /\ svc.connected =>
            broker'.state[client.host][svc.topic] = StateShown(svc'.last)
  PROVE  MqttInv'
<1>1. TypeInv' /\ SessionInv'
  BY DEF MqttInv, TypeInv, SessionInv
<1>2. CommandsAreHeard'
  BY DEF MqttInv, CommandsAreHeard, Understood
<1>3. StateShown(svc.last)' = StateShown(svc'.last)
  BY DEF StateShown
<1>4. MemoryIsRetained'
  BY <1>3 DEF MemoryIsRetained
<1> QED
  BY <1>1, <1>2, <1>4 DEF MqttInv

LEMMA AnnounceKeeps ==
  ASSUME MqttInv, svc.connected, svc.haStep \notin {"NONE", "DONE"}, AdvanceHaDiscovery,
         pc' = "config", UNCHANGED <<config, disc, client, env, budget>>
  PROVE  MqttInv'
<1>1. TypeInv /\ SessionInv /\ svc \in Services /\ broker \in Brokers /\ env.app \in Apps
  BY DEF MqttInv, TypeInv
<1>2. CASE svc.haStep = "SPEED"
  <2>1. svc' = [svc EXCEPT !.haStep = "DONE", !.last = env.app] /\ broker' = PublishFullState(broker)
    BY <1>2 DEF AdvanceHaDiscovery
  <2>2. /\ svc' \in Services /\ svc'.last = env.app
        /\ svc'.connected = svc.connected /\ svc'.cached = svc.cached /\ svc'.host = svc.host
        /\ svc'.topic = svc.topic /\ svc'.dirty = svc.dirty /\ svc'.post = svc.post
    BY <1>1, <2>1 DEF Services
  <2>3. /\ broker' \in Brokers /\ broker'.subs = broker.subs
        /\ broker'.state[client.host][svc.topic] = StateShown(env.app)
    BY <1>1, <2>1, Published
  <2> QED
    BY <2>2, <2>3, SessionStays
<1>3. CASE svc.haStep # "SPEED"
  <2> DEFINE i == CHOOSE k \in DOMAIN HaSteps : HaSteps[k] = svc.haStep
  <2>1. /\ svc' = [svc EXCEPT !.haStep = HaSteps[i + 1]]
        /\ broker' = IF svc.haStep = "SCENE" THEN PublishOptions(broker) ELSE broker
    BY <1>3 DEF AdvanceHaDiscovery
  <2>2. svc.haStep \in {"POWER", "LIGHT", "SCENE", "PLAYING"}
    BY <1>1, <1>3 DEF Services, Announcing
  <2>3. \E k \in DOMAIN HaSteps : HaSteps[k] = svc.haStep
    BY <2>2 DEF HaSteps
  <2>4. i \in DOMAIN HaSteps /\ HaSteps[i] = svc.haStep
    BY <2>3
  <2> HIDE DEF i
  <2>5. HaSteps[i + 1] \in Announcing
    BY <1>3, <2>4 DEF HaSteps, Announcing
  <2>6. /\ svc' \in Services /\ svc'.haStep # "DONE"
        /\ svc'.connected = svc.connected /\ svc'.cached = svc.cached /\ svc'.host = svc.host
        /\ svc'.topic = svc.topic /\ svc'.dirty = svc.dirty /\ svc'.post = svc.post
    BY <1>1, <2>1, <2>5 DEF Services, Announcing
  <2>7. broker' \in Brokers /\ broker'.subs = broker.subs
    BY <1>1, <2>1, Published
  <2> QED
    BY <2>6, <2>7, SessionStays
<1> QED
  BY <1>2, <1>3

LEMMA DiffKeeps ==
  ASSUME MqttInv, svc.connected, svc.haStep = "DONE", PublishStateDiff,
         pc' = "config", UNCHANGED <<config, disc, client, env, budget>>
  PROVE  MqttInv' \/ UNCHANGED <<svc, broker>>
<1>1. /\ TypeInv /\ SessionInv /\ svc \in Services /\ broker \in Brokers /\ env.app \in Apps
      /\ env.list \in {0, 1}
  BY DEF MqttInv, TypeInv
<1> DEFINE hash == ComputeSceneListHash(env.list)
           b    == PublishFullState(broker)
<1>2. hash \in Nat
  BY <1>1 DEF ComputeSceneListHash
<1>3. SUFFICES ASSUME ~(env.app = svc.last /\ hash = svc.hash) PROVE MqttInv'
  BY DEF PublishStateDiff
<1>4. /\ svc' = [svc EXCEPT !.last = env.app, !.hash = hash]
      /\ broker' \in {b, PublishOptions(b)}
  BY <1>3 DEF PublishStateDiff
<1> HIDE DEF hash
<1>5. /\ svc' \in Services /\ svc'.last = env.app
      /\ svc'.connected = svc.connected /\ svc'.cached = svc.cached /\ svc'.host = svc.host
      /\ svc'.topic = svc.topic /\ svc'.dirty = svc.dirty /\ svc'.post = svc.post
  BY <1>1, <1>2, <1>4 DEF Services
<1>6. /\ broker' \in Brokers /\ broker'.subs = broker.subs
      /\ broker'.state[client.host][svc.topic] = StateShown(env.app)
  BY <1>1, <1>4, Published
<1> QED
  BY <1>5, <1>6, SessionStays

LEMMA PublishKeeps == ASSUME MqttInv, NEW due \in BOOLEAN, Publish(due) PROVE MqttInv'
<1>1. TypeInv /\ SessionInv /\ pc' = "config" /\ UNCHANGED <<config, disc, client, env, budget>>
  BY DEF MqttInv, Publish
<1>2. ASSUME UNCHANGED <<svc, broker>> PROVE MqttInv'
  <2>1. TypeInv' /\ SessionInv'
    BY <1>1, <1>2 DEF TypeInv, SessionInv
  <2>2. CommandsAreHeard' /\ MemoryIsRetained'
    BY <1>1, <1>2 DEF MqttInv, CommandsAreHeard, MemoryIsRetained, Understood, StateShown
  <2> QED
    BY <2>1, <2>2 DEF MqttInv
<1>3. CASE ~Publishing \/ ~due
  BY <1>2, <1>3 DEF Publish
<1>4. CASE Publishing /\ due /\ svc.haStep = "DONE"
  BY <1>1, <1>2, <1>4, DiffKeeps DEF Publish, Publishing
<1>5. CASE Publishing /\ due /\ svc.haStep # "DONE"
  BY <1>1, <1>5, AnnounceKeeps DEF Publish, Publishing
<1> QED
  BY <1>3, <1>4, <1>5

-----------------------------------------------------------------------------
(* The network task, time, and the rest of the controller.                  *)

\* A new session announces everything again and has yet to subscribe.
LEMMA ConnectsKeeps == ASSUME MqttInv, ClientConnects PROVE MqttInv'
<1>1. /\ TypeInv /\ SessionInv /\ client.state = "connecting"
      /\ client' = [client EXCEPT !.state = "up"] /\ svc' = OnConnect(svc)
      /\ broker' = [broker EXCEPT !.subs = {}, !.options = Unset]
      /\ UNCHANGED <<config, disc, pc, env, budget>>
  BY DEF MqttInv, ClientConnects
<1>2. /\ svc' \in Services /\ svc'.connected /\ svc'.post /\ svc'.haStep = "POWER"
      /\ svc'.cached = svc.cached /\ svc'.host = svc.host
  BY <1>1 DEF OnConnect, TypeInv, Services, Announcing
<1>3. client' \in Clients /\ client'.state = "up" /\ client'.host \in Hosts /\ broker' \in Brokers
  BY <1>1 DEF TypeInv, Clients, SessionInv, Brokers
<1>4. TypeInv' /\ SessionInv'
  BY <1>1, <1>2, <1>3 DEF TypeInv, SessionInv
<1> QED
  BY <1>2, <1>4 DEF MqttInv, CommandsAreHeard, MemoryIsRetained

LEMMA DropsKeeps == ASSUME MqttInv, ClientDrops PROVE MqttInv'
<1>1. /\ TypeInv /\ SessionInv /\ client' = ClientOff /\ svc' = OnDisconnect(svc) /\ SessionEnds
      /\ UNCHANGED <<config, disc, pc, env>> /\ Charge
  BY DEF MqttInv, ClientDrops
<1>2. svc' \in Services /\ ~svc'.connected /\ (svc'.cached => svc'.host \in Hosts)
  BY <1>1, Disconnected DEF TypeInv, SessionInv
<1>3. budget' \in [patches : Nat, faults : Nat, changes : Nat]
  BY <1>1 DEF Charge, TypeInv
<1> QED
  BY <1>1, <1>2, <1>3, Off DEF TypeInv, IsSearch

LEMMA RestartKeeps == ASSUME MqttInv, Restart PROVE MqttInv'
<1>1. /\ TypeInv /\ SessionInv /\ client' = ClientOff /\ SessionEnds /\ pc' = "config"
      /\ svc' = [InitSvc EXCEPT !.topic = TopicOf(config.prefix)]
      /\ config' = [config EXCEPT !.prefix = TopicOf(@)] /\ disc' = IdleDisc
      /\ UNCHANGED env /\ Charge
  BY DEF MqttInv, Restart
<1>2. TopicOf(config.prefix) \in Topics
  BY <1>1, MqttAssumption DEF TopicOf, TypeInv, Configs
<1>3. svc' \in Services /\ ~svc'.connected /\ ~svc'.cached /\ config' \in Configs
  BY <1>1, <1>2 DEF InitSvc, Services, TypeInv, Configs, HostNames
<1>4. budget' \in [patches : Nat, faults : Nat, changes : Nat] /\ IsSearch(disc')
  BY <1>1 DEF Charge, TypeInv, IdleDisc, IsSearch, Modes, HostNames
<1> QED
  BY <1>1, <1>3, <1>4, Off DEF TypeInv

\* Time, WiFi and the state to publish are no business of the session's.
LEMMA WorldKeeps == ASSUME MqttInv, TimePasses \/ WifiChanges \/ StateChanges PROVE MqttInv'
<1>1. /\ TypeInv /\ SessionInv /\ UNCHANGED <<config, disc, client, broker, pc>>
      /\ svc \in Services
  BY DEF MqttInv, TimePasses, WifiChanges, StateChanges, TypeInv
<1>2. /\ svc' \in Services /\ svc'.connected = svc.connected /\ svc'.cached = svc.cached
      /\ svc'.host = svc.host /\ svc'.topic = svc.topic /\ svc'.dirty = svc.dirty
      /\ svc'.post = svc.post /\ svc'.haStep = svc.haStep /\ svc'.last = svc.last
  BY <1>1 DEF TimePasses, WifiChanges, StateChanges, Services
<1>3. /\ env' \in [wifi : BOOLEAN, app : Apps, list : {0, 1}]
      /\ budget' \in [patches : Nat, faults : Nat, changes : Nat]
  <2>1. /\ env \in [wifi : BOOLEAN, app : Apps, list : {0, 1}]
        /\ budget \in [patches : Nat, faults : Nat, changes : Nat]
    BY <1>1 DEF TypeInv
  <2>2. CASE TimePasses
    BY <2>1, <2>2 DEF TimePasses
  <2>3. CASE WifiChanges
    <3>1. env' = [env EXCEPT !.wifi = ~env.wifi] /\ (~env.wifi) \in BOOLEAN
      BY <2>3 DEF WifiChanges
    <3> QED
      BY <1>1, <2>1, <2>3, <3>1, ChargeTyped DEF WifiChanges
  <2>4. CASE StateChanges
    <3>1. PICK a \in Apps, l \in {0, 1} : env' = [env EXCEPT !.app = a, !.list = l]
      BY <2>4 DEF StateChanges
    <3>2. budget' = [budget EXCEPT !.changes = @ - 1] /\ budget.changes > 0
      BY <2>4 DEF StateChanges
    <3>3. env' \in [wifi : BOOLEAN, app : Apps, list : {0, 1}]
      BY <2>1, <3>1
    <3> QED
      BY <2>1, <3>2, <3>3
  <2> QED
    BY <2>2, <2>3, <2>4
<1>4. TypeInv' /\ SessionInv'
  BY <1>1, <1>2, <1>3 DEF TypeInv, SessionInv
<1>5. CommandsAreHeard' /\ MemoryIsRetained'
  BY <1>1, <1>2 DEF MqttInv, CommandsAreHeard, MemoryIsRetained, Understood, StateShown
<1> QED
  BY <1>4, <1>5 DEF MqttInv

-----------------------------------------------------------------------------
(* The theorems.                                                            *)

LEMMA InvInit == Init => MqttInv
<1> SUFFICES ASSUME Init PROVE MqttInv
  OBVIOUS
<1>1. config \in Configs /\ svc \in Services /\ client \in Clients /\ ~svc.connected
      /\ ~svc.cached /\ client.state = "off"
  BY MqttAssumption DEF Init, InitConfigs, Configs, InitSvc, Services, Clients, HostNames, Modes
<1>2. IsSearch(disc) /\ broker \in Brokers
  BY DEF Init, IdleDisc, IsSearch, HostNames, Modes, Brokers
<1>3. /\ pc \in {"config", "connect", "post", "publish"}
      /\ env \in [wifi : BOOLEAN, app : Apps, list : {0, 1}]
      /\ budget \in [patches : Nat, faults : Nat, changes : Nat]
  BY MqttAssumption DEF Init
<1> QED
  BY <1>1, <1>2, <1>3 DEF MqttInv, TypeInv, SessionInv, CommandsAreHeard, MemoryIsRetained

LEMMA InvNext == MqttInv /\ [Next]_vars => MqttInv'
<1> SUFFICES ASSUME MqttInv, [Next]_vars PROVE MqttInv'
  OBVIOUS
<1>1. CASE UNCHANGED vars
  <2>1. TypeInv' /\ SessionInv'
    BY <1>1 DEF vars, MqttInv, TypeInv, SessionInv
  <2>2. CommandsAreHeard' /\ MemoryIsRetained'
    BY <1>1 DEF vars, MqttInv, CommandsAreHeard, MemoryIsRetained, Understood, StateShown
  <2> QED
    BY <2>1, <2>2 DEF MqttInv
<1> QED
  BY <1>1, PatchKeeps, ConfigKeeps, ConnectKeeps, PostKeeps, PublishKeeps, ConnectsKeeps,
     DropsKeeps, RestartKeeps, WorldKeeps DEF Next

LEMMA Inv == Spec => []MqttInv
  BY InvInit, InvNext, PTL DEF Spec

\* A session that is set up, with no change of the configuration waiting, is subscribed
\* to the commands onMessage understands (subscribeCommands, notifyConfigChanged).
THEOREM CommandsHeard == Spec => []CommandsAreHeard
  BY Inv, PTL DEF MqttInv

\* What publishStateDiff compares with is what the broker it is connected to retains
\* under the prefix in use (publishFullState, onConnect).
THEOREM MemoryTrue == Spec => []MemoryIsRetained
  BY Inv, PTL DEF MqttInv
=============================================================================
