------------------------------ MODULE Manager ------------------------------
(***************************************************************************)
(* The processes of the operator (cmd/manager/main.go): the settings they  *)
(* load from the environment (settings/settings.go), leader election, the  *)
(* graceful stop and the crash.                                            *)
(*                                                                         *)
(* The lease belongs to controller-runtime and client-go.  It carries the  *)
(* time since its last renewal instead of the renewal time.  A leader that *)
(* has not renewed it for RenewDeadline gives up and its process exits;    *)
(* others take it over after LeaseDuration.  Leader election is safe only  *)
(* if a process that gave up is gone by then: Tick does not pass that      *)
(* point with such a process alive.  A restarted process has a new         *)
(* identity, so the lease of its predecessor has to run out.               *)
(***************************************************************************)
EXTENDS Integers, FiniteSets

CONSTANTS
    Process,
    Setting,          \* the environment variables of durations
    Default,          \* Setting -> seconds
    Environment,      \* the environments: Setting -> Unset, Malformed or a number
    Unset, Malformed,
    Second,           \* time.Second, in the unit of a Duration
    Width,            \* bits of a time.Duration
    LeaseDuration, RenewDeadline,
    Former,           \* the holder of a lease whose process is gone
    MaxCrashes        \* bound on the crashes and evictions

ASSUME ManagerAssumption ==
    /\ Former \notin Process
    /\ RenewDeadline \in Nat /\ LeaseDuration \in Nat
    /\ RenewDeadline < LeaseDuration
    /\ 2^(Width - 1) \in Nat \ {0}
    /\ Second \in Nat /\ Default \in [Setting -> Int]
    /\ Environment \subseteq [Setting -> Int \cup {Unset, Malformed}]

VARIABLES
    env,         \* the environment of the deployment
    state,       \* Process -> its life cycle
    settings,    \* Process -> loaded settings, while it runs
    holder,      \* of the lease
    age,         \* time since the lease was renewed
    crashes

managerVars == <<env, state, settings, holder, age, crashes>>

NoSettings == [s \in {} |-> 0]

ManagerInit ==
    /\ env \in Environment
    /\ state = [p \in Process |-> "off"]
    /\ settings = [p \in Process |-> NoSettings]
    /\ holder = Former
    /\ age = LeaseDuration
    /\ crashes = 0

Running(p) == state[p] # "off"

\* A process that may be handling events.  The watcher's Shutdown does not
\* wait for the handlers of the informers, so one may be active until the
\* process is gone.
Active(p) == state[p] \in {"leading", "stopping", "waited", "lost"}

----------------------------------------------------------------------------
(* Settings.                                                               *)

\* A product of durations keeps the low bits, read as a signed number.
Wrap(n) == ((n + 2^(Width - 1)) % (2 * 2^(Width - 1))) - 2^(Width - 1)

LookupSeconds(e, s) ==
    Wrap((IF e[s] = Unset THEN Default[s] ELSE e[s]) * Second)

Loads_Anyway(e) == TRUE

\* A variable that is no number is an error; Load stops, init panics.
Loads(e) == \A s \in Setting : e[s] # Malformed

\* The settings a process has after Load.
Load(e) == [s \in {t \in Setting : e[t] # Malformed} |-> LookupSeconds(e, s)]

----------------------------------------------------------------------------
(* main.                                                                   *)

Enter(p, s) == state' = [state EXCEPT ![p] = s]

\* The process is gone.  Its lease stays as it is.
Leave(p) ==
    /\ Enter(p, "off")
    /\ settings' = [settings EXCEPT ![p] = NoSettings]
    /\ holder' = IF holder = p THEN Former ELSE holder

\* init and main up to mgr.Start.  Without leader election the controller
\* and the watcher start at once.
Boot(p, args) ==
    /\ ~Running(p)
    /\ Loads(env)
    /\ settings' = [settings EXCEPT ![p] = Load(env)]
    /\ Enter(p, IF "--leader-elect" \in args THEN "standby" ELSE "leading")
    /\ UNCHANGED <<env, holder, age, crashes>>

Acquire(p) ==
    /\ state[p] = "standby"
    /\ age >= LeaseDuration
    /\ holder' = p
    /\ age' = 0
    /\ Enter(p, "leading")
    /\ UNCHANGED <<env, settings, crashes>>

\* Renewed while it leads and while a stop waits for the runnables.
Renew(p) ==
    /\ state[p] \in {"leading", "stopping"}
    /\ holder = p
    /\ 0 < age /\ age < RenewDeadline
    /\ age' = 0
    /\ UNCHANGED <<env, state, settings, holder, crashes>>

\* "leader election lost": mgr.Start returns an error without a graceful
\* stop, and main exits.
GiveUp(p) ==
    /\ state[p] \in {"leading", "stopping"}
    /\ holder = p
    /\ age >= RenewDeadline
    /\ Enter(p, "lost")
    /\ UNCHANGED <<env, settings, holder, age, crashes>>

\* SIGTERM.
Terminate(p) ==
    /\ state[p] \in {"standby", "leading"}
    /\ crashes < MaxCrashes
    /\ crashes' = crashes + 1
    /\ IF state[p] = "standby" THEN Leave(p) ELSE Enter(p, "stopping") /\ UNCHANGED <<settings, holder>>
    /\ UNCHANGED <<env, age>>

CancelElection_Releases(p) ==
    /\ holder' = IF holder = p THEN Former ELSE holder
    /\ age' = IF holder = p THEN LeaseDuration ELSE age

\* The election is cancelled once the runnables were waited for.
\* LeaderElectionReleaseOnCancel is not set: the lease is left to run out.
CancelElection(p) == UNCHANGED <<holder, age>>

Stopped(p) ==
    /\ state[p] = "stopping"
    /\ Enter(p, "waited")
    /\ CancelElection(p)
    /\ UNCHANGED <<env, settings, crashes>>

\* mgr.Start has returned and main ends, with exit code 1 after an error.
Exit(p) ==
    /\ state[p] \in {"waited", "lost"}
    /\ Leave(p)
    /\ UNCHANGED <<env, age, crashes>>

\* The process is killed: by a crash, or at the end of its grace period.
Crash(p) ==
    /\ Running(p)
    /\ crashes < MaxCrashes
    /\ crashes' = crashes + 1
    /\ Leave(p)
    /\ UNCHANGED <<env, age>>

\* One unit of time.  A leader gives up in time and is gone in time.
Tick ==
    /\ age < LeaseDuration
    /\ \A p \in Process : holder = p /\ state[p] \in {"leading", "stopping"} => age < RenewDeadline
    /\ \A p \in Process : holder = p /\ state[p] \in {"lost", "waited"} => age + 1 < LeaseDuration
    /\ age' = age + 1
    /\ UNCHANGED <<env, state, settings, holder, crashes>>

----------------------------------------------------------------------------
\* Enabling leader election "will ensure there is only one active
\* controller manager" (main.go:85): also while one pod is replaced by the
\* next, and in every order of stops, crashes and missed renewals, at most
\* one process handles events.
OneActiveManager == \A p, q \in Process : Active(p) /\ Active(q) => p = q

\* A process that runs has a value for every setting: the seconds of its
\* variable or the default, as long as a Duration can hold them.  One
\* variable that does not parse keeps the process from running at all.
SettingsAreEnvironments ==
    \A p \in Process : Running(p) =>
        \A s \in Setting :
            LET n == IF env[s] = Unset THEN Default[s] ELSE env[s]
            IN  /\ s \in DOMAIN settings[p]
                /\ -(2^(Width - 1)) <= n * Second /\ n * Second < 2^(Width - 1) =>
                        settings[p][s] = n * Second
=============================================================================
