----------------------------- MODULE Placement -----------------------------
(***************************************************************************)
(* Where an environment goes: `env create` on the hub (internal/sshapi      *)
(* fleet.go) looks the environment up in the directory, places it           *)
(* (internal/env placement.go, internal/fleet choose.go) by what machines   *)
(* announced, and forwards the command to the machine chosen, which creates *)
(* it and announces what it has.  Several creates run at once, machines     *)
(* come and go and announcements are lost.                                  *)
(***************************************************************************)
EXTENDS Integers, FiniteSets

CONSTANTS PMachines,       \* the machines; "hub" is one of them
          NameOrder,       \* the place of each in the order of names
          PlacedEnvs,      \* names of environments
          Creators,        \* the sessions that create
          Room,            \* the memory each machine can give, in its gauge
          Demand,          \* what an environment asks for
          Pins,            \* envs.<env>.machine of the file: "" or a machine
          MaxMoves         \* bound: creates, destroys and losses

HubMachine == "hub"
Nobody     == "nobody"

\* Names are told apart, and in a fleet of any size one machine has the most room.
ASSUME PlacementAssumption ==
    /\ HubMachine \in PMachines /\ PMachines \cap {"", Nobody} = {}
    /\ NameOrder \in [PMachines -> Nat]
    /\ \A m, n \in PMachines : NameOrder[m] = NameOrder[n] => m = n
    /\ IsFiniteSet(PlacedEnvs)
    /\ Demand \in Nat
    /\ Room \in [PMachines -> Nat]
    /\ \E most \in PMachines : \A m \in PMachines : Room[m] <= Room[most]

VARIABLES homes,        \* the machines that hold an environment of this name
          listed,       \* the hub's directory: the machine it names
          gauged,       \* the free memory a machine last announced
          heardFrom,    \* the machine was seen lately
          creating,     \* the create of each session
          moves, unlisted, overlapping

placeVars == <<homes, listed, gauged, heardFrom, creating, moves, unlisted, overlapping>>

Nothing == [step |-> "idle", env |-> "", on |-> "", target |-> Nobody]

PlaceInit ==
    /\ homes = [e \in PlacedEnvs |-> {}]
    /\ listed = [e \in PlacedEnvs |-> Nobody]
    /\ gauged = Room
    /\ heardFrom = [m \in PMachines |-> TRUE]
    /\ creating = [c \in Creators |-> Nothing]
    /\ moves = 0
    /\ unlisted = FALSE
    /\ overlapping = FALSE

Held(m) == {e \in PlacedEnvs : m \in homes[e]}

----------------------------------------------------------------------------
\* fleet.Choose.

\* A hub is always reachable to itself.
Reachable(m) == m = HubMachine \/ heardFrom[m]
EnvsOn(m)    == Cardinality({e \in PlacedEnvs : listed[e] = m})

\* consider: a machine fits when it is reachable and what it said it has is
\* enough; what was placed there since is not counted.
Fits(m) == Reachable(m) /\ gauged[m] >= Demand

\* rank: the fitting ones first, then the most room, the fewest environments,
\* the name.
Ranks(a, b) ==
    IF gauged[a] # gauged[b] THEN gauged[a] > gauged[b]
    ELSE IF EnvsOn(a) # EnvsOn(b) THEN EnvsOn(a) < EnvsOn(b)
    ELSE NameOrder[a] < NameOrder[b]

Best == CHOOSE m \in PMachines :
            Fits(m) /\ \A n \in PMachines : n # m /\ Fits(n) => Ranks(m, n)

\* pinOf: --on and the file may both name a machine, and must agree.
PinOf(env, on) == IF on = "" THEN Pins[env] ELSE on
PinsAgree(env, on) == on = "" \/ Pins[env] = "" \/ on = Pins[env]

\* PlaceEnv: the pinned machine when it is known and fits, else the best.
MutDecision(env, on) ==
    LET pin == PinOf(env, on)
    IN IF pin # "" /\ Fits(pin) THEN pin
       ELSE IF \E m \in PMachines : Fits(m) THEN Best
       ELSE Nobody
Decision(env, on) ==
    LET pin == PinOf(env, on)
    IN IF ~PinsAgree(env, on) THEN Nobody
       ELSE IF pin # "" THEN IF pin \in PMachines /\ Fits(pin) THEN pin ELSE Nobody
       ELSE IF \E m \in PMachines : Fits(m) THEN Best
       ELSE Nobody

----------------------------------------------------------------------------
\* placeAndForward.  The directory's answer is "here" both for an environment
\* this machine holds and for one nobody holds.

PlaceStep(c, step) == creating' = [creating EXCEPT ![c].step = step]

BeginPlacing(c) ==
    \E env \in PlacedEnvs, on \in PMachines \cup {""} :
        /\ creating[c].step \in {"idle", "ok", "failed"}
        /\ moves < MaxMoves /\ moves' = moves + 1
        /\ creating' = [creating EXCEPT ![c] =
                [step |-> "resolve", env |-> env, on |-> on, target |-> Nobody]]
        /\ overlapping' = (overlapping \/ \E d \in Creators :
                              /\ creating[d].step \notin {"idle", "ok", "failed"}
                              /\ creating[d].env = env)
        /\ UNCHANGED <<homes, listed, gauged, heardFrom, unlisted>>

\* An environment another machine holds stays there.
MutHeldElsewhere(env) == Nobody
HeldElsewhere(env) ==
    IF listed[env] \in {Nobody, HubMachine} THEN Nobody ELSE listed[env]

ResolveEnv(c) ==
    /\ creating[c].step = "resolve"
    /\ LET held == HeldElsewhere(creating[c].env)
           on == creating[c].on
       IN IF held = Nobody THEN PlaceStep(c, "place")
          ELSE IF on # "" /\ on # held THEN PlaceStep(c, "failed")
          ELSE creating' = [creating EXCEPT ![c].step = "forward", ![c].target = held]
    /\ UNCHANGED <<homes, listed, gauged, heardFrom, moves, unlisted, overlapping>>

PlaceEnv(c) ==
    /\ creating[c].step = "place"
    /\ LET to == Decision(creating[c].env, creating[c].on)
       IN creating' = [creating EXCEPT
             ![c].target = to,
             ![c].step = IF to = Nobody THEN "failed"
                         ELSE IF to = HubMachine THEN "create" ELSE "forward"]
    /\ UNCHANGED <<homes, listed, gauged, heardFrom, moves, unlisted, overlapping>>

\* Forward dials the machine: one that is gone fails the command.
Forward(c) ==
    /\ creating[c].step = "forward"
    /\ PlaceStep(c, IF heardFrom[creating[c].target] THEN "create" ELSE "failed")
    /\ UNCHANGED <<homes, listed, gauged, heardFrom, moves, unlisted, overlapping>>

\* Create on the machine: one it already has is refused.
CreateThere(c) ==
    /\ creating[c].step = "create"
    /\ LET m == creating[c].target
           e == creating[c].env
       IN \/ /\ m \in homes[e]
             /\ PlaceStep(c, "failed") /\ UNCHANGED homes
          \/ /\ m \notin homes[e]
             /\ homes' = [homes EXCEPT ![e] = @ \cup {m}]
             /\ PlaceStep(c, "announce")
    /\ UNCHANGED <<listed, gauged, heardFrom, moves, unlisted, overlapping>>

----------------------------------------------------------------------------
\* Announcements: every environment of the machine, and its gauge.  A row of
\* the directory is one environment's, whoever announces it last.

FreeOf(m, held) == IF Room[m] < Demand * Cardinality(held) THEN 0
                   ELSE Room[m] - Demand * Cardinality(held)

\* ApplyAnnouncement: a full one forgets the rows it does not name.
MutForgotten(m, held) == {}
Forgotten(m, held) == {e \in PlacedEnvs : listed[e] = m /\ e \notin held}

Told(m, held) ==
    /\ listed' = [e \in PlacedEnvs |->
                    CASE e \in held -> m
                      [] e \in Forgotten(m, held) -> Nobody
                      [] OTHER -> listed[e]]
    /\ gauged' = [gauged EXCEPT ![m] = FreeOf(m, held)]

\* A call to the hub may be lost: it is logged, and made again with the next.
TellsHub(m, held) ==
    \/ Told(m, held) /\ UNCHANGED unlisted
    \/ /\ m # HubMachine
       /\ unlisted' = TRUE
       /\ UNCHANGED <<listed, gauged>>

Announce(c) ==
    /\ creating[c].step = "announce"
    /\ TellsHub(creating[c].target, Held(creating[c].target))
    /\ PlaceStep(c, "ok")
    /\ UNCHANGED <<homes, heardFrom, moves, overlapping>>

\* A machine's periodic announcement.
Beat(m) ==
    /\ heardFrom[m]
    /\ Told(m, Held(m))
    /\ UNCHANGED <<homes, heardFrom, creating, moves, unlisted, overlapping>>

\* `env destroy`, forwarded by the directory, announces what is left.
DestroyEnv(e) ==
    /\ moves < MaxMoves /\ moves' = moves + 1
    /\ ~\E c \in Creators : /\ creating[c].env = e
                            /\ creating[c].step \in {"create", "announce"}
    /\ LET m == IF listed[e] = Nobody THEN HubMachine ELSE listed[e]
       IN /\ Reachable(m) /\ m \in homes[e]
          /\ homes' = [homes EXCEPT ![e] = @ \ {m}]
          /\ TellsHub(m, Held(m) \ {e})
    /\ UNCHANGED <<heardFrom, creating, overlapping>>

\* A member goes silent past UnreachableAfter, and is heard again.
Silent(m) ==
    /\ m # HubMachine /\ heardFrom[m] /\ moves < MaxMoves
    /\ moves' = moves + 1
    /\ heardFrom' = [heardFrom EXCEPT ![m] = FALSE]
    /\ UNCHANGED <<homes, listed, gauged, creating, unlisted, overlapping>>

Heard(m) ==
    /\ ~heardFrom[m]
    /\ heardFrom' = [heardFrom EXCEPT ![m] = TRUE]
    /\ Told(m, Held(m))
    /\ UNCHANGED <<homes, creating, moves, unlisted, overlapping>>

----------------------------------------------------------------------------
PlaceNext ==
    \/ \E c \in Creators : \/ BeginPlacing(c) \/ ResolveEnv(c) \/ PlaceEnv(c)
                           \/ Forward(c) \/ CreateThere(c) \/ Announce(c)
    \/ \E m \in PMachines : Beat(m) \/ Silent(m) \/ Heard(m)
    \/ \E e \in PlacedEnvs : DestroyEnv(e)

PlaceSpec == PlaceInit /\ [][PlaceNext]_placeVars

PlaceTypeOK ==
    /\ homes \in [PlacedEnvs -> SUBSET PMachines]
    /\ listed \in [PlacedEnvs -> PMachines \cup {Nobody}]
    /\ \A m \in PMachines : gauged[m] \in 0..Room[m]
    /\ \A c \in Creators : creating[c].target \in PMachines \cup {Nobody}

\* A create that succeeds with --on or a pinned file is on that machine.
PinHonoured ==
    \A c \in Creators :
        creating[c].step = "announce" =>
            LET pin == IF creating[c].on # "" THEN creating[c].on ELSE Pins[creating[c].env]
            IN pin # "" => creating[c].target = pin

\* When nothing is under way and every announcement arrived, the machine the
\* directory names has the environment: commands are forwarded by it.
DirectoryTrue ==
    (~unlisted /\ \A c \in Creators : creating[c].step \in {"idle", "ok", "failed"}) =>
        \A e \in PlacedEnvs : listed[e] # Nobody => listed[e] \in homes[e]

\* Creates of one name that do not overlap put it on one machine, as long as
\* the hub has heard of the first.
OneHome ==
    ~overlapping /\ ~unlisted => \A e \in PlacedEnvs : Cardinality(homes[e]) <= 1

\* A new environment is where its file or --on says, the directory names a
\* machine that has it, and it has one home where the hub has no room of its
\* own.
EnvPlaced ==
    /\ PlaceTypeOK /\ PinHonoured /\ DirectoryTrue
    /\ Room[HubMachine] < Demand => OneHome
=============================================================================
