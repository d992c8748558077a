------------------------- MODULE LockoutSimulation -------------------------
(***************************************************************************)
(* run_lockout_simulation (app/security/lockout_simulation.py), which      *)
(* shows the backoff by failing logins round after round, and its two      *)
(* callers: `cli_demo.py simulate-lockout` on an existing account, through *)
(* login() with the rate limits off, while the service goes on handling    *)
(* logins of that account; and the administrator's POST /simulate-lockout  *)
(* (app/routes/admin.py) on an account made for it, whose name nobody else *)
(* knows, with an attempt function that skips the lockout check.           *)
(*                                                                         *)
(* Attempts and lockouts are those of LockoutPolicy: one login at a time,  *)
(* so a login of the service falls between two steps of the simulation.    *)
(* The names differ from those of RateLimit, the other layer on top of the *)
(* policy, so that one module can reason about both.                       *)
(***************************************************************************)
EXTENDS LockoutPolicy

CONSTANTS
    Rounds,      \* how many lockouts to show
    MaxLive,     \* bound: how many logins the service handles meanwhile
    LastTick     \* bound: the clock stops here

ASSUME UsersAssumption == Users # {}
ASSUME RoundsAssumption == Rounds \in Nat \ {0} /\ MaxFailed \in Nat \ {0}
ASSUME LiveAssumption == MaxLive \in Nat /\ LastTick \in Nat

VARIABLES
    caller,    \* "cli" or "admin"
    user,      \* the account of the simulation
    pc,        \* what the simulation does next: "start", "attempt", "lock", "look",
               \* "after", "reset", and in the end "succeeded" or "failed"
    round, attempt, previous, status,  \* the variables of the same names, but
               \* previous is previous_lockouts
    latest,    \* the number of latest_lockout
    live,      \* how often the service has touched the account
    disturbed, \* history: it was locked at the start, or an attempt has succeeded
    lifted     \* history: the lockouts that the simulation has ended

sim == <<caller, user, pc, round, attempt, previous, status, latest, lifted>>

simulationVars == <<policyVars, sim, live, disturbed>>

SimulationInit ==
    /\ PolicyInit
    /\ caller \in {"cli", "admin"} /\ user \in Users
    /\ pc = "start" /\ round = 1 /\ attempt = 1 /\ previous = 0 /\ status = 0 /\ latest = 0
    /\ live = 0 /\ disturbed = FALSE /\ lifted = {}

Goto(step) == pc' = step

Expected == previous + round

-----------------------------------------------------------------------------
(* The service, which also handles logins of the account that the command  *)
(* line names, before the simulation starts and while it runs.             *)

LiveWrong == ~Locked(user) /\ Fail(user) /\ UNCHANGED disturbed

LiveRefused == Locked(user) /\ Refuse(user) /\ UNCHANGED disturbed

LiveRight == ~Locked(user) /\ Succeed(user) /\ disturbed' = (disturbed \/ pc # "start")

Live ==
    /\ caller = "cli" /\ pc # "lock" /\ live < MaxLive
    /\ LiveWrong \/ LiveRefused \/ LiveRight
    /\ live' = live + 1
    /\ UNCHANGED sim

(* An administrator's unlock sets the end of the newest lockout to now.    *)
LiveUnlock ==
    /\ live < MaxLive
    /\ Unlock(user) /\ until'[user] = now
    /\ live' = live + 1
    /\ UNCHANGED <<sim, disturbed>>

LockNow == Lock(user) /\ until'[user] = now + Duration(number[user] + 1)

LiveLock ==
    /\ pc # "lock"
    /\ LockNow
    /\ UNCHANGED <<sim, live, disturbed>>

TimePasses ==
    /\ now < LastTick /\ now' = now + 1 /\ Pass
    /\ UNCHANGED <<sim, live, disturbed>>

-----------------------------------------------------------------------------
(* The simulation.                                                         *)

Start ==
    /\ pc = "start"
    /\ previous' = number[user]
    /\ disturbed' = Locked(user)
    /\ Goto("attempt")
    /\ UNCHANGED <<policyVars, caller, user, round, attempt, status, latest, live, lifted>>

IsRefused == caller = "cli" /\ Locked(user)

(* attempt_login(): the password is wrong, unless the command line says    *)
(* otherwise.                                                              *)
Refused ==
    /\ IsRefused /\ Refuse(user)
    /\ status' = 423 /\ Goto("look")
    /\ UNCHANGED disturbed

Rejected ==
    /\ ~IsRefused /\ Fail(user)
    /\ status' = 401 /\ Goto(IF due' = {} THEN "look" ELSE "lock")
    /\ UNCHANGED disturbed

Accepted ==
    /\ caller = "cli" /\ ~Locked(user) /\ Succeed(user)
    /\ status' = 200 /\ Goto("look")
    /\ disturbed' = TRUE

Attempt ==
    /\ pc = "attempt"
    /\ Refused \/ Rejected \/ Accepted
    /\ UNCHANGED <<caller, user, round, attempt, previous, latest, live, lifted>>

(* Only the administrator's attempt function answers the attempt that      *)
(* locks with 423.                                                         *)
AttemptLocks ==
    /\ pc = "lock" /\ LockNow
    /\ status' = IF caller = "admin" THEN 423 ELSE 401
    /\ Goto("look")
    /\ UNCHANGED <<caller, user, round, attempt, previous, latest, live, disturbed, lifted>>

MoreAttempts == attempt < MaxFailed

(* The newest lockout decides whether to break out of the round.           *)
Look ==
    /\ pc = "look"
    /\ \/ /\ number[user] >= Expected \/ status = 423 \/ ~MoreAttempts
          /\ Goto("after")
          /\ UNCHANGED attempt
       \/ /\ number[user] < Expected /\ status # 423 /\ MoreAttempts
          /\ attempt' = attempt + 1
          /\ Goto("attempt")
    /\ UNCHANGED <<policyVars, caller, user, round, previous, status, latest, live, disturbed,
                   lifted>>

(* Fault: the round is not checked.                                        *)
BugReached == TRUE

Reached == number[user] >= Expected

(* After the loop the newest lockout is read again.                        *)
LookAgain ==
    /\ pc = "after"
    /\ latest' = number[user]
    /\ Goto(IF ~Reached THEN "failed" ELSE IF round < Rounds THEN "reset" ELSE "succeeded")
    /\ UNCHANGED <<policyVars, caller, user, round, attempt, previous, status, live, disturbed,
                   lifted>>

(* Fault: the row is not committed.                                        *)
BugExpire == UNCHANGED policyVars

(* The row read before is updated, the newest or not.                      *)
Expire ==
    \/ latest = number[user] /\ Unlock(user) /\ until'[user] = now
    \/ latest # number[user] /\ UNCHANGED policyVars

Reset ==
    /\ pc = "reset"
    /\ Expire
    /\ lifted' = lifted \cup {latest}
    /\ round' = round + 1 /\ attempt' = 1
    /\ Goto("attempt")
    /\ UNCHANGED <<caller, user, previous, status, latest, live, disturbed>>

-----------------------------------------------------------------------------
Service == Live \/ LiveUnlock \/ LiveLock

Simulate == Start \/ Attempt \/ AttemptLocks \/ Look \/ LookAgain \/ Reset

SimulationNext == Service \/ TimePasses \/ Simulate

SimulationSpec == SimulationInit /\ [][SimulationNext]_simulationVars

-----------------------------------------------------------------------------
(* Properties.                                                             *)

(* Every round reaches its lockout whatever the service does meanwhile,    *)
(* other failures, lockouts and unlocks of the account included, unless    *)
(* the account was locked already or somebody has logged in.               *)
FailsForAReason == pc = "failed" => disturbed

(* The simulation on a live account ends lockouts of that account, but     *)
(* none that was in force when it started.                                 *)
OldLockoutsStand == lifted \cap 1..previous = {}

=============================================================================
