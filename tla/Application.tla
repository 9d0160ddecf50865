---------------------------- MODULE Application -----------------------------
(* An application from build() to the end of its lifespan (core): the
   registry resolves the enabled extensions into a chain, their hooks run
   along it at startup and against it at shutdown, and the components are
   closed last.

   CapabilityRegistry resolves capabilities by the same algorithm.  Every
   extension has both hooks and every component a close; each may raise. *)
EXTENDS Naturals, Sequences, FiniteSets

CONSTANTS Extensions,  \* names the registry knows
          Strangers,   \* names it does not
          Components   \* number of components, in the order of _components

ASSUME ApplicationAssumption ==
  /\ IsFiniteSet(Extensions) /\ Extensions \cap Strangers = {}
  /\ Components \in Nat \ {0}

Names == Extensions \cup Strangers

VARIABLES requires, \* ExtensionPoint.requires
          enabled,  \* app.extensions.enabled
          phase,    \* how far the application is
          unseen,   \* resolution: enabled names not looked at yet
          visiting, \* its recursion: [name, left], left still to look at
          chain,    \* the extensions resolved so far, in order
          unknown, circular, \* what it found wrong
          turn,     \* position in the chain, or among the components
          up,       \* extensions started and not shut down
          sampler,  \* the capacity sampler runs
          shut,     \* components that are closed
          failed    \* ghost: a hook or a close raised

graphVars == <<requires, enabled>>
resolveVars == <<unseen, visiting, chain, unknown, circular>>
lifeVars == <<turn, up, sampler, shut, failed>>
appVars == <<graphVars, phase, resolveVars, lifeVars>>

(* register refuses an extension that requires itself. *)
AppInit ==
  /\ requires \in [Extensions -> SUBSET Names]
  /\ \A e \in Extensions : e \notin requires[e]
  /\ enabled \in SUBSET Names
  /\ phase = "resolving" /\ unseen = enabled /\ visiting = <<>> /\ chain = <<>>
  /\ unknown = FALSE /\ circular = FALSE
  /\ turn = 0 /\ up = {} /\ sampler = FALSE /\ shut = {} /\ failed = FALSE

----------------------------------------
(* _topological_closure. *)

InChain(n) == \E i \in DOMAIN chain : chain[i] = n
Visited(n) == \E i \in DOMAIN visiting : visiting[i].name = n

(* dfs(n), called with `rest` left of the names of its caller. *)
Visit(n, stack) ==
  /\ chain' = chain
  /\ IF n \in Strangers THEN unknown' = TRUE ELSE UNCHANGED unknown
  /\ circular' = (circular \/ Visited(n))
  /\ visiting' = IF InChain(n) \/ n \in Strangers \/ Visited(n) THEN stack
                 ELSE Append(stack, [name |-> n, left |-> requires[n]])

Top == visiting[Len(visiting)]
WithTop(s, x) == [s EXCEPT ![Len(s)].left = @ \ {x}]

LooksAt ==
  /\ phase = "resolving" /\ visiting = <<>>
  /\ \E n \in unseen : unseen' = unseen \ {n} /\ Visit(n, <<>>)
  /\ UNCHANGED <<graphVars, phase, lifeVars>>

Descends ==
  /\ phase = "resolving" /\ visiting # <<>>
  /\ \E n \in Top.left : Visit(n, WithTop(visiting, n))
  /\ UNCHANGED <<graphVars, phase, unseen, lifeVars>>

(* What comes before an extension is in the chain before it is. *)
Returns ==
  /\ phase = "resolving" /\ visiting # <<>> /\ Top.left = {}
  /\ visiting' = SubSeq(visiting, 1, Len(visiting) - 1)
  /\ chain' = Append(chain, Top.name)
  /\ UNCHANGED <<graphVars, phase, unseen, unknown, circular, lifeVars>>

(* _setup_extensions: a chain, or ConfigError and no application. *)
Resolves ==
  /\ phase = "resolving" /\ visiting = <<>> /\ unseen = {}
  /\ phase' = IF unknown \/ circular THEN "refused" ELSE "starting"
  /\ turn' = 1
  /\ UNCHANGED <<graphVars, resolveVars, up, sampler, shut, failed>>

----------------------------------------
(* _lifespan. *)

(* A hook raises: the lifespan ends there. *)
HookRaises ==
  /\ phase \in {"starting", "stopping", "closing"}
  /\ phase' = "ended" /\ failed' = TRUE
  /\ UNCHANGED <<graphVars, resolveVars, turn, up, sampler, shut>>

Starts ==
  /\ phase = "starting" /\ turn <= Len(chain)
  /\ up' = up \cup {chain[turn]} /\ turn' = turn + 1
  /\ UNCHANGED <<graphVars, phase, resolveVars, sampler, shut, failed>>

StartsSampler ==
  /\ phase = "starting" /\ turn > Len(chain)
  /\ phase' = "serving" /\ sampler' = TRUE
  /\ UNCHANGED <<graphVars, resolveVars, turn, up, shut, failed>>

(* A mutant: the hooks run in the order they ran at startup. *)
Forwards(i) == chain[Len(chain) + 1 - i]

InTurn(i) == chain[i]

StopsSampler ==
  /\ phase = "serving" /\ phase' = "stopping" /\ sampler' = FALSE
  /\ turn' = Len(chain)
  /\ UNCHANGED <<graphVars, resolveVars, up, shut, failed>>

ShutsDown ==
  /\ phase = "stopping"
  /\ IF turn > 0 THEN /\ up' = up \ {InTurn(turn)} /\ turn' = turn - 1
                      /\ UNCHANGED phase
     ELSE phase' = "closing" /\ turn' = 1 /\ UNCHANGED up
  /\ UNCHANGED <<graphVars, resolveVars, sampler, shut, failed>>

Closes ==
  /\ phase = "closing"
  /\ IF turn <= Components THEN
     /\ shut' = shut \cup {turn} /\ turn' = turn + 1
     /\ UNCHANGED phase
     ELSE phase' = "ended" /\ UNCHANGED <<shut, turn>>
  /\ UNCHANGED <<graphVars, resolveVars, up, sampler, failed>>

AppNext == \/ LooksAt \/ Descends \/ Returns \/ Resolves \/ Starts \/ StartsSampler
           \/ StopsSampler \/ ShutsDown \/ Closes \/ HookRaises

AppSpec == AppInit /\ [][AppNext]_appVars

AppTypeOK ==
  /\ requires \in [Extensions -> SUBSET Names] /\ enabled \subseteq Names
  /\ phase \in {"resolving", "refused", "starting", "serving", "stopping",
                "closing", "ended"}
  /\ unseen \subseteq enabled /\ chain \in Seq(Extensions)
  /\ visiting \in Seq([name : Extensions, left : SUBSET Names])
  /\ {unknown, circular, sampler, failed} \subseteq BOOLEAN
  /\ turn \in 0..(Components + Cardinality(Extensions) + 1)
  /\ up \subseteq Extensions /\ shut \subseteq 1..Components

----------------------------------------
(* The names the enabled ones need: the least set that is closed. *)
Closed(S) == \A e \in S \cap Extensions : requires[e] \subseteq S
Needed == {n \in Names : \A S \in SUBSET Names : enabled \subseteq S /\ Closed(S)
                                                  => n \in S}
Cyclic(S) == \E C \in (SUBSET S) \ {{}} : \A e \in C : requires[e] \cap C # {}

(* An application is refused exactly if its extensions need a name that is
   not registered or one that needs itself; otherwise the chain has every
   extension that is needed once. *)
ChainIsSound ==
  phase # "resolving" =>
    /\ (phase = "refused") <=> (~(Needed \subseteq Extensions)
                                \/ Cyclic(Needed \cap Extensions))
    /\ phase # "refused" =>
       /\ {chain[i] : i \in DOMAIN chain} = Needed
       /\ Len(chain) = Cardinality(Needed)

(* What an extension needs is up as long as the extension is, the
   components are open as long as any extension is, and without an error
   in a hook everything that was started is stopped in the end. *)
StartedAreStopped ==
  /\ \A e \in up : requires[e] \subseteq up
  /\ shut # {} => up = {} /\ ~sampler
  /\ phase = "ended" /\ ~failed => up = {} /\ shut = 1..Components

(* An application is refused for what its extensions lack and for nothing
   else, they start after what they need, stop before it, and are all
   stopped before the components are closed (Application.lifespan,
   ExtensionRegistry). *)
AssembledInOrder == AppTypeOK /\ ChainIsSound /\ StartedAreStopped
=============================================================================
