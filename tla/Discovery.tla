------------------------------ MODULE Discovery -------------------------------
(* How services find one another: the client of Nacos and what a process
   registers of itself (capabilities/registry), the balancers
   (capabilities/loadbalance), and the breakers of a FeignClient
   (capabilities/http). *)
EXTENDS Integers, Sequences, FiniteSets

LOCAL INSTANCE FiniteSetsExt
LOCAL INSTANCE SequencesExt
LOCAL INSTANCE Functions

CONSTANTS NamingTasks,   \* coroutines that use the client
          Ports,         \* ports a process registers itself with
          MaxNaming,     \* bound: naming services made
          Hosts, Weights, \* instances, and weights they may have
          MaxChoices,    \* bound: choices since the instances changed
          BreakerThreads \* threads that ask for the breaker of a service

ASSUME DiscoveryAssumption ==
  /\ Ports \subseteq Nat \ {0} /\ MaxNaming \in Nat \ {0}
  /\ Weights \subseteq Int /\ MaxChoices \in Nat

VARIABLES naming,    \* _naming_service: its number, or 0
          madeNaming, openNaming, \* history: how many were made; not shut down
          namingCall, \* of each task: [op, at, with, port, answer, quiet]
          atNacos,   \* ports that Nacos has
          registered, \* NacosRegistration._instance: its port, or 0
          askedPorts, \* history: ports asked for before the last
          crossedNaming, \* history: a service was made or closed beside another
          machine,   \* what a process knows of its addresses
          policy,    \* which balancer it is
          choosable, \* the instances given to the balancers
          nextIndex, \* RoundRobinBalancer._counter
          swrr,      \* WeightedRoundRobinBalancer: [signature, current]
          takenInTurn, takenByWeight, \* history: how often, since they changed
          breakerOf, madeBreakers, \* FeignClient._breakers of a service; history
          asker      \* of each thread: "new", "looked", "locked" or its breaker

namingVars == <<naming, madeNaming, openNaming, namingCall, atNacos, registered, askedPorts,
                crossedNaming>>
addressVars == <<machine>>
choiceVars == <<policy, choosable, nextIndex, swrr, takenInTurn, takenByWeight>>
askerVars == <<breakerOf, madeBreakers, asker>>

----------------------------------------
(* NacosDiscoveryClient, NacosRegistration.  Errors are answers: False, or
   no instances. *)

NoNamingCall == [op |-> "none", at |-> "idle", with |-> 0, port |-> 0, answer |-> FALSE,
                 quiet |-> TRUE]

NamingInit ==
  /\ naming = 0 /\ madeNaming = 0 /\ openNaming = {} /\ atNacos = {}
  /\ namingCall = [t \in NamingTasks |-> NoNamingCall]
  /\ registered = 0 /\ askedPorts = {} /\ crossedNaming = FALSE

(* A register begins: what others were told of a deregister is old. *)
Unquiet(calls) ==
  [t \in NamingTasks |-> IF calls[t].op = "deregister" THEN [calls[t] EXCEPT !.quiet = FALSE]
                         ELSE calls[t]]

(* _get_naming_service: the first to ask makes it; nothing keeps others
   from asking meanwhile. *)
Asks(t, op, port) ==
  [op |-> op, at |-> IF naming = 0 THEN "creating" ELSE "using", with |-> naming, port |-> port,
   answer |-> FALSE, quiet |-> TRUE]

(* A mutant: only what was registered is kept in mind. *)
RegisterForgetful(t, port) ==
  /\ namingCall[t].at = "idle"
  /\ namingCall' = Unquiet([namingCall EXCEPT ![t] = Asks(t, "register", port)])
  /\ UNCHANGED <<registered, askedPorts, naming, madeNaming, openNaming, atNacos, crossedNaming>>

RegisterSelf(t, port) ==
  /\ namingCall[t].at = "idle"
  /\ namingCall' = Unquiet([namingCall EXCEPT ![t] = Asks(t, "register", port)])
  /\ registered' = port
  /\ askedPorts' = IF registered \in {0, port} THEN askedPorts ELSE askedPorts \cup {registered}
  /\ UNCHANGED <<naming, madeNaming, openNaming, atNacos, crossedNaming>>

DeregisterSelf(t) ==
  /\ namingCall[t].at = "idle" /\ registered # 0
  /\ namingCall' = [namingCall EXCEPT ![t] =
       [Asks(t, "deregister", registered) EXCEPT
          !.quiet = \A u \in NamingTasks : namingCall[u].at = "idle" \/ namingCall[u].op # "register"]]
  /\ UNCHANGED <<naming, madeNaming, openNaming, atNacos, registered, askedPorts, crossedNaming>>

ListInstances(t) ==
  /\ namingCall[t].at = "idle"
  /\ namingCall' = [namingCall EXCEPT ![t] = Asks(t, "list", 0)]
  /\ UNCHANGED <<naming, madeNaming, openNaming, atNacos, registered, askedPorts, crossedNaming>>

NamingMade(t) ==
  /\ namingCall[t].at = "creating" /\ madeNaming < MaxNaming   \* bound
  /\ madeNaming' = madeNaming + 1 /\ naming' = madeNaming'
  /\ openNaming' = openNaming \cup {naming'}
  /\ crossedNaming' = (crossedNaming \/ naming # 0)
  /\ namingCall' = [namingCall EXCEPT ![t].at = "using", ![t].with = naming']
  /\ UNCHANGED <<atNacos, registered, askedPorts>>

(* Only what a deregister was told is of use later. *)
Replies(t, answer) ==
  namingCall' = [namingCall EXCEPT ![t] =
    IF @.op = "deregister" /\ answer THEN [@ EXCEPT !.at = "idle", !.with = 0, !.answer = TRUE]
    ELSE NoNamingCall]

(* Nacos does what it is asked, and its answer may be lost. *)
Effect(op, port) ==
  CASE op = "register" -> atNacos \cup {port}
    [] op = "deregister" -> atNacos \ {port}
    [] OTHER -> atNacos

Served(t) ==
  LET c == namingCall[t]
  IN  /\ c.at = "using" /\ c.with \in openNaming
      /\ atNacos' = Effect(c.op, c.port)
      /\ \E answer \in BOOLEAN : Replies(t, answer)
      /\ UNCHANGED <<naming, madeNaming, openNaming, registered, askedPorts, crossedNaming>>

Unserved(t) ==
  /\ namingCall[t].at \in {"creating", "using"} /\ Replies(t, FALSE)
  /\ UNCHANGED <<naming, madeNaming, openNaming, atNacos, registered, askedPorts, crossedNaming>>

CloseNaming(t) ==
  /\ namingCall[t].at = "idle" /\ naming # 0
  /\ namingCall' = [namingCall EXCEPT ![t] = [Asks(t, "close", 0) EXCEPT !.at = "closing"]]
  /\ UNCHANGED <<naming, madeNaming, openNaming, atNacos, registered, askedPorts, crossedNaming>>

(* A mutant: the client keeps a service that it shut down. *)
ShutDownKept(t) ==
  /\ namingCall[t].at = "closing"
  /\ openNaming' = openNaming \ {namingCall[t].with} /\ Replies(t, TRUE)
  /\ UNCHANGED <<naming, madeNaming, atNacos, registered, askedPorts, crossedNaming>>

(* shutdown() may raise; the service is forgotten all the same, whichever
   it is by now. *)
ShutDown(t) ==
  /\ namingCall[t].at = "closing" /\ naming' = 0
  /\ \/ /\ openNaming' = openNaming \ {namingCall[t].with}
        /\ crossedNaming' = (crossedNaming \/ naming # namingCall[t].with)
     \/ UNCHANGED openNaming /\ crossedNaming' = TRUE
  /\ Replies(t, TRUE)
  /\ UNCHANGED <<madeNaming, atNacos, registered, askedPorts>>

NamingNext ==
  \E t \in NamingTasks :
    \/ \E port \in Ports : RegisterSelf(t, port)
    \/ DeregisterSelf(t) \/ ListInstances(t) \/ NamingMade(t) \/ Served(t) \/ Unserved(t)
    \/ CloseNaming(t) \/ ShutDown(t)

----------------------------------------
(* _get_local_ip: what is configured, what the platform says, the gateway
   of the default route, the address that packets leave by. *)

Told == <<"register_ip", "NACOS_REGISTER_IP", "POD_IP", "HOST_IP">>
MachineInit == machine \in [told : SUBSET {Told[i] : i \in DOMAIN Told},
                            kind : {"bridge", "bare", "other"}, routed : BOOLEAN]

(* _get_default_gateway: Linux has a table of routes; the gateway of a
   bridge is the host, that of a machine of its own is a router. *)
Gateway == IF machine.kind # "other" /\ machine.routed
           THEN IF machine.kind = "bridge" THEN "host" ELSE "router" ELSE "none"

LocalIp ==
  IF machine.told # {} THEN Told[CHOOSE i \in DOMAIN Told :
                                   /\ Told[i] \in machine.told
                                   /\ \A j \in DOMAIN Told : j < i => Told[j] \notin machine.told]
  ELSE IF Gateway # "none" THEN Gateway
  ELSE IF machine.routed THEN "own" ELSE "loopback"

----------------------------------------
(* The balancers, over the instances that a registry lists. *)

Usable(list) == SelectSeq(list, LAMBDA i : i.weight > 0)
WeightOf(list, h) == MapThenSumSet(LAMBDA i : i.weight, {i \in Range(list) : i.host = h})
WeightOfAll(instances) == MapThenSumSet(LAMBDA i : i.weight, instances)
NoneTaken == [h \in Hosts |-> 0]

ChoiceInit ==
  /\ policy \in {"turn", "weight"} /\ choosable = <<>> /\ nextIndex = 0
  /\ swrr = [signature |-> {}, current |-> NoneTaken]
  /\ takenInTurn = NoneTaken /\ takenByWeight = NoneTaken

(* The order is that of the registry, and says nothing to the signature. *)
InstancesChange(list) ==
  /\ choosable' = list /\ list # choosable
  /\ takenInTurn' = NoneTaken /\ UNCHANGED <<policy, nextIndex, swrr, takenByWeight>>

AllTaken(taken) == FoldFunction(LAMBDA a, b : a + b, 0, taken)

(* RoundRobinBalancer.choose. *)
ChooseInTurn ==
  /\ policy = "turn" /\ choosable # <<>> /\ AllTaken(takenInTurn) < MaxChoices   \* bound
  /\ nextIndex' = (nextIndex + 1) % 6   \* bound: 1, 2 and 3 divide it
  /\ LET h == choosable[(nextIndex % Len(choosable)) + 1].host
     IN  takenInTurn' = [takenInTurn EXCEPT ![h] = @ + 1]
  /\ UNCHANGED <<policy, choosable, swrr, takenByWeight>>

(* _reset_if_changed. *)
Signature == Range(Usable(choosable))

(* A mutant: the weights of before are kept. *)
KeptWeights == swrr.current

CurrentWeights == IF Signature = swrr.signature THEN swrr.current ELSE NoneTaken

(* WeightedRoundRobinBalancer.choose: the first of the greatest. *)
ChooseByWeight ==
  LET list == Usable(choosable)
      raised == [h \in Hosts |-> CurrentWeights[h] + WeightOf(list, h)]
      best == list[Min({i \in 1..Len(list) :
                          \A j \in 1..Len(list) : raised[list[j].host] <= raised[list[i].host]})].host
      total == WeightOfAll(Range(list))
      before == IF Signature = swrr.signature THEN takenByWeight ELSE NoneTaken
  IN  /\ policy = "weight" /\ list # <<>> /\ AllTaken(before) < MaxChoices   \* bound
      /\ swrr' = [signature |-> Signature, current |-> [raised EXCEPT ![best] = @ - total]]
      /\ takenByWeight' = [before EXCEPT ![best] = @ + 1]
      /\ UNCHANGED <<policy, choosable, nextIndex, takenInTurn>>

ChoiceNext ==
  \/ \E hosts \in SUBSET Hosts : \E order \in SetToAllKPermutations(hosts) :
       \E weights \in [hosts -> (IF policy = "turn" THEN {1} ELSE Weights)] :
         Len(order) = Cardinality(hosts)
           /\ InstancesChange([i \in 1..Len(order) |-> [host |-> order[i], weight |-> weights[order[i]]]])
  \/ ChooseInTurn \/ ChooseByWeight

----------------------------------------
(* FeignClient._get_breaker: a look, then the lock and another look. *)

AskersInit ==
  breakerOf = 0 /\ madeBreakers = 0 /\ asker = [t \in BreakerThreads |-> <<"new", 0>>]

FirstLook(t) ==
  /\ asker[t][1] = "new"
  /\ asker' = [asker EXCEPT ![t] = IF breakerOf # 0 THEN <<"has", breakerOf>> ELSE <<"looked", 0>>]
  /\ UNCHANGED <<breakerOf, madeBreakers>>

LocksBreakers(t) ==
  /\ asker[t][1] = "looked" /\ \A u \in BreakerThreads : asker[u][1] # "locked"
  /\ asker' = [asker EXCEPT ![t] = <<"locked", 0>>]
  /\ UNCHANGED <<breakerOf, madeBreakers>>

(* A mutant: no second look. *)
MakesBlindly(t) ==
  /\ asker[t][1] = "locked"
  /\ madeBreakers' = madeBreakers + 1 /\ breakerOf' = madeBreakers'
  /\ asker' = [asker EXCEPT ![t] = <<"has", breakerOf'>>]

MakesBreaker(t) ==
  /\ asker[t][1] = "locked"
  /\ IF breakerOf = 0 THEN madeBreakers' = madeBreakers + 1 /\ breakerOf' = madeBreakers'
     ELSE UNCHANGED <<madeBreakers, breakerOf>>
  /\ asker' = [asker EXCEPT ![t] = <<"has", breakerOf'>>]

AskersNext == \E t \in BreakerThreads : FirstLook(t) \/ LocksBreakers(t) \/ MakesBreaker(t)

----------------------------------------
(* Properties. *)

(* A naming service that is open is the one the client has, and the one it
   has is open, unless two first uses, or two closes, or a close and a
   first use, overlapped, or a shutdown failed (_get_naming_service,
   close). *)
NamingKept ==
  \/ crossedNaming
  \/ /\ openNaming \subseteq {naming}
     /\ naming # 0 => naming \in openNaming

(* What a process registered of itself it can take back, though answers of
   Nacos get lost: Nacos has no port but the last that was asked for, and
   those that were asked for before; and after a deregister that was
   answered with True, with no register since, it does not have that port
   (NacosRegistration.register, deregister). *)
RegistrationKnown ==
  /\ atNacos \subseteq {registered} \cup askedPorts
  /\ \A t \in NamingTasks :
       LET c == namingCall[t]
       IN  c.op = "deregister" /\ c.at = "idle" /\ c.answer /\ c.quiet => c.port \notin atNacos

(* The address that is registered is one at which others reach the process
   or its host, except on a machine of its own with a default route: there
   it is the router's (_get_local_ip, _get_default_gateway). *)
AddressReachable ==
  LocalIp \in {"router", "loopback"} =>
    /\ machine.told = {}
    /\ IF machine.routed THEN machine.kind = "bare" ELSE LocalIp = "loopback"

(* Over instances that stay the same, no instance is chosen twice more
   often than another in turn; by weight, none is chosen a turn more often
   than its share says, nor, of three at most, a turn less, and one
   without weight never - though the instances changed before, and are
   listed in another order (RoundRobinBalancer, WeightedRoundRobinBalancer). *)
SharesKept ==
  LET all == WeightOfAll(swrr.signature)
      n == AllTaken(takenByWeight)
  IN  /\ \A i, j \in Range(choosable) : takenInTurn[i.host] <= takenInTurn[j.host] + 1
      /\ \A i \in swrr.signature :
           LET ahead == takenByWeight[i.host] * all - n * i.weight
           IN  ahead < all /\ (-ahead < all \/ Cardinality(swrr.signature) > 3)
      /\ \A h \in Hosts : takenByWeight[h] > 0 => \E i \in swrr.signature : i.host = h /\ i.weight > 0

(* A service has one breaker, and whoever asks for it gets that one. *)
OneBreaker ==
  /\ madeBreakers <= 1
  /\ \A t \in BreakerThreads : asker[t][1] = "has" => asker[t][2] = breakerOf

(* Services are registered where they can be reached, and deregistered; a
   name has one breaker. *)
DiscoverySound == NamingKept /\ RegistrationKnown /\ AddressReachable /\ OneBreaker
=============================================================================
