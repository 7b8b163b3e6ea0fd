------------------------------- MODULE PodWaits --------------------------------
(***************************************************************************)
(* The waits of pod_lifecycle provision and resume for one issue: the      *)
(* local estimate of the account's spend, the refusal of the provider, the *)
(* backoff within a budget, the exit "still waiting" after which the       *)
(* session runs the command again.  The session that runs the command may  *)
(* be stopped and respawned under it, a call may be sent again, fail with  *)
(* the pod made, and a command may be killed anywhere.                     *)
(***************************************************************************)
EXTENDS Naturals, FiniteSets

CONSTANTS
  Proc,        \* the commands ever run
  Budget,      \* backoffs that fit into one process
  MaxSends,    \* GRAPHQL_MAX_ATTEMPTS
  MaxTurns,    \* changes of capacity, headroom and session, wrong estimates
  MaxFaults    \* calls whose reply is lost, ssh waits that time out, kills

VARIABLES
  verb, auto,      \* provision or resume; in an autonomous session
  session,         \* its generation
  at, owner, waited,   \* of each command: step, session that ran it, backoffs slept
  pod,             \* the pods of the issue: none, exited, running
  mine,            \* the pod the call of a command has returned
  recorded,        \* the pod in the sidecar and pods.conf under the name of the issue
  headroom, capacity,
  gaveUp,          \* a command that may wait has ended on a refusal that passes by itself
  turns, faults
vars == << verb, auto, session, at, owner, waited, pod, mine, recorded, headroom, capacity,
           gaveUp, turns, faults >>

\* A pod is named by the command and the sending of its call that made it.
Old == << 0, 1 >>        \* the pod that was there before
Pod == (Proc \X (1..MaxSends)) \cup {Old}
NoPod == << 0, 0 >>

TypeOK ==
  /\ verb \in {"provision", "resume"} /\ auto \in BOOLEAN /\ session \in Nat \ {0}
  /\ at \in [Proc -> {"none", "look", "check", "call", "refused", "ssh", "record", "ended"}]
  /\ owner \in [Proc -> Nat] /\ waited \in [Proc -> 0..Budget]
  /\ pod \in [Pod -> {"none", "exited", "running"}] /\ mine \in [Proc -> Pod]
  /\ recorded \in Pod \cup {NoPod}
  /\ headroom \in BOOLEAN /\ capacity \in BOOLEAN /\ gaveUp \in BOOLEAN
  /\ turns \in 0..MaxTurns /\ faults \in 0..MaxFaults

\* A resume finds a pod that was stopped and is on record.
Init ==
  /\ verb = "provision" /\ auto = TRUE /\ session = 1
  /\ at = [p \in Proc |-> "none"] /\ owner = [p \in Proc |-> 0] /\ waited = [p \in Proc |-> 0]
  /\ pod = [k \in Pod |-> "none"] /\ mine = [p \in Proc |-> Old]
  /\ recorded = NoPod
  /\ headroom = FALSE /\ capacity = TRUE /\ gaveUp = FALSE
  /\ turns = 0 /\ faults = 0

-----------------------------------------------------------------------------
Go(p, step) == at' = [at EXCEPT ![p] = step]
Account == << verb, auto, session, headroom, capacity >>
Fault == faults < MaxFaults /\ faults' = faults + 1
Turn == turns < MaxTurns /\ turns' = turns + 1
Busy(p) == at[p] \notin {"none", "ended"}

\* The first command decides what this history is about.
Setting ==
  IF \A p \in Proc : at[p] = "none"
  THEN /\ verb' \in {"provision", "resume"} /\ auto' \in BOOLEAN
       /\ pod' = [pod EXCEPT ![Old] = IF verb' = "resume" THEN "exited" ELSE "none"]
       /\ recorded' = IF verb' = "resume" THEN Old ELSE NoPod
  ELSE UNCHANGED << verb, auto, pod, recorded >>

\* A session runs one command at a time and knows of none an earlier one ran.
Start(p) ==
  /\ at[p] = "none" /\ \A q \in Proc : Busy(q) => owner[q] # session
  /\ Setting
  /\ Go(p, "look") /\ owner' = [owner EXCEPT ![p] = session]
  /\ UNCHANGED << session, waited, mine, headroom, capacity, gaveUp, turns, faults >>

\* provision is refused while a pod of the issue is up, resume unless one is
\* down; looked at once, before the wait.
Look(p) ==
  /\ at[p] = "look"
  /\ Go(p, IF \/ verb = "provision" /\ \E k \in Pod : pod[k] = "running"
              \/ verb = "resume" /\ pod[Old] # "exited" THEN "ended" ELSE "check")
  /\ UNCHANGED << Account, owner, waited, pod, mine, recorded, gaveUp, turns, faults >>

\* _assert_under_account_hourly_cap: an estimate from the local rates.  It is a
\* refusal like the provider's where the command may wait, the end of it else.
EstimateOver(fits) == ~fits
Check(p) ==
  /\ at[p] = "check"
  /\ \E fits \in BOOLEAN :
       /\ IF fits = headroom THEN UNCHANGED turns ELSE Turn
       /\ Go(p, IF ~EstimateOver(fits) THEN "call" ELSE IF auto THEN "refused" ELSE "ended")
  /\ UNCHANGED << Account, owner, waited, pod, mine, recorded, gaveUp, faults >>

\* What a command waits for: headroom, and provision for capacity too.
Passing(p) == ~headroom \/ verb = "provision"

\* The pod that the next sending of the call would bring up.
Sends(p) == {n \in 1..MaxSends : pod[<< p, n >>] = "none"}
Target(p) ==
  IF verb = "resume" THEN {Old}
  ELSE {<< p, n >> : n \in {m \in Sends(p) : \A l \in Sends(p) : m <= l}}

\* create_pod, resume_pod.
Call(p) ==
  /\ at[p] = "call"
  /\ \/ /\ headroom /\ capacity
        /\ \E k \in Target(p) :
             mine' = [mine EXCEPT ![p] = k] /\ pod' = [pod EXCEPT ![k] = "running"]
        /\ Go(p, "ssh") /\ UNCHANGED gaveUp
     \/ /\ ~(headroom /\ capacity)
        /\ Go(p, IF auto /\ Passing(p) THEN "refused" ELSE "ended")
        /\ gaveUp' = (gaveUp \/ (auto /\ ~headroom /\ at'[p] = "ended"))
        /\ UNCHANGED << pod, mine >>
  /\ UNCHANGED << Account, owner, waited, recorded, turns, faults >>

\* graphql: a call whose reply does not come is sent again, whether it has made
\* a pod or not, and raises after the last sending.
ReplyLost(p) ==
  /\ at[p] = "call" /\ headroom /\ capacity /\ Fault
  /\ \E k \in Target(p) : pod' = [pod EXCEPT ![k] = "running"]
  /\ at' = at \/ Go(p, "ended")
  /\ UNCHANGED << Account, owner, waited, mine, recorded, gaveUp, turns >>

CallFails(p) ==
  /\ at[p] = "call" /\ Fault /\ Go(p, "ended")
  /\ UNCHANGED << Account, owner, waited, pod, mine, recorded, gaveUp, turns >>

\* The backoff, or exit 75 when it does not fit into the budget any more.
BackOff_endless(p) ==
  /\ at[p] = "refused" /\ Go(p, "check") /\ waited' = [waited EXCEPT ![p] = @ + 1]
  /\ UNCHANGED << Account, owner, pod, mine, recorded, gaveUp, turns, faults >>

BackOff(p) ==
  /\ at[p] = "refused"
  /\ IF waited[p] = Budget THEN Go(p, "ended") /\ UNCHANGED waited
     ELSE Go(p, "check") /\ waited' = [waited EXCEPT ![p] = @ + 1]
  /\ UNCHANGED << Account, owner, pod, mine, recorded, gaveUp, turns, faults >>

\* wait_for_ssh: after ten minutes it raises, the pod stays up and off the record.
Reach(p) ==
  /\ at[p] = "ssh"
  /\ \/ Go(p, "record") /\ UNCHANGED faults
     \/ Go(p, "ended") /\ Fault
  /\ UNCHANGED << Account, owner, waited, pod, mine, recorded, gaveUp, turns >>

\* The row goes by the name of the issue: a later pod takes the place of another.
Record(p) ==
  /\ at[p] = "record" /\ Go(p, "ended")
  /\ recorded' = mine[p]
  /\ UNCHANGED << Account, owner, waited, pod, mine, gaveUp, turns, faults >>

Killed(p) ==
  /\ Busy(p) /\ Fault /\ Go(p, "ended")
  /\ UNCHANGED << Account, owner, waited, pod, mine, recorded, gaveUp, turns >>

-----------------------------------------------------------------------------
\* _maybe_detach_into_own_session: provision and resume leave the process
\* group of an autonomous session.
Detached(p) == auto

\* The watcher stops the session, with its process group, and starts another.
Respawn ==
  /\ auto /\ Turn
  /\ \E p \in Proc : Busy(p)
  /\ session' = session + 1
  /\ at' = [p \in Proc |-> IF Busy(p) /\ ~Detached(p) THEN "ended" ELSE at[p]]
  /\ UNCHANGED << verb, auto, owner, waited, pod, mine, recorded, headroom, capacity,
                  gaveUp, faults >>

MarketMoves ==
  /\ Turn
  /\ \/ headroom' = ~headroom /\ UNCHANGED capacity
     \/ capacity' = ~capacity /\ UNCHANGED headroom
  /\ UNCHANGED << verb, auto, session, at, owner, waited, pod, mine, recorded, gaveUp, faults >>

Next ==
  \/ \E p \in Proc :
       \/ Start(p) \/ Look(p) \/ Check(p) \/ Call(p) \/ ReplyLost(p) \/ CallFails(p)
       \/ BackOff(p) \/ Reach(p) \/ Record(p) \/ Killed(p)
  \/ Respawn \/ MarketMoves

Spec == Init /\ [][Next]_vars

-----------------------------------------------------------------------------
Minding(k) == \E p \in Proc : mine[p] = k /\ at[p] \in {"ssh", "record"}
Unknown == {k \in Pod : pod[k] = "running" /\ recorded # k /\ ~Minding(k)}

\* A pod that bills is on record, or the command that brought it up is still
\* going to record it, but for one at most for each lost reply, each ssh wait that
\* timed out and each command that was killed; a respawned session that provisions
\* beside its predecessor's command can add to them only by taking the record for
\* a pod of its own.  And a command that may wait never ends for want of headroom
\* before its budget does.
BilledIsKnown ==
  /\ session = 1 \/ recorded = NoPod => Cardinality(Unknown) <= faults
  /\ ~gaveUp
=============================================================================
