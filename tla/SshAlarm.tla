------------------------------- MODULE SshAlarm --------------------------------
(***************************************************************************)
(* ssh_preflight and the alarm on a pod that bills while nobody reaches    *)
(* it: note_ssh_wait_outcome keeps, per pod, the time of the first failure *)
(* since the last success and of the last alarm, in one file that it reads *)
(* whole and writes whole without a lock.                                  *)
(***************************************************************************)
EXTENDS Naturals

CONSTANTS Proc, PodName, Threshold, MaxClock, MaxTurns

VARIABLES
  pod,       \* open: ssh answers; deaf: it runs and does not answer; exited
  file,      \* first and last alarm per pod; None when there is no entry
  at,        \* idle, probed, noting, resumed, again
  on, found, \* the pod of a command, and what its probe has found
  held,      \* the file as read
  overlap,   \* another note was in progress at the same time
  good,      \* the time of the last successful probe that was noted, per pod
  undue,     \* an alarm rang that was not due
  clock, turns
vars == << pod, file, at, on, found, held, overlap, good, undue, clock, turns >>

None == MaxClock + 1
Entry == [first : 0..None, last : 0..None]

TypeOK ==
  /\ pod \in [PodName -> {"open", "deaf", "exited"}]
  /\ file \in [PodName -> Entry] /\ held \in [Proc -> [PodName -> Entry]]
  /\ at \in [Proc -> {"idle", "probed", "noting", "resumed", "again", "noteagain"}]
  /\ on \in [Proc -> PodName] /\ found \in [Proc -> BOOLEAN]
  /\ overlap \in BOOLEAN /\ undue \in BOOLEAN
  /\ good \in [PodName -> 0..MaxClock] /\ clock \in 0..MaxClock /\ turns \in 0..MaxTurns

NoEntry == [first |-> None, last |-> None]
Init ==
  /\ pod = [k \in PodName |-> "open"] /\ file = [k \in PodName |-> NoEntry]
  /\ at = [p \in Proc |-> "idle"] /\ on = [p \in Proc |-> CHOOSE k \in PodName : TRUE]
  /\ found = [p \in Proc |-> TRUE] /\ held = [p \in Proc |-> file]
  /\ overlap = FALSE /\ good = [k \in PodName |-> 0] /\ undue = FALSE
  /\ clock = 0 /\ turns = 0

-----------------------------------------------------------------------------
Go(p, step) == at' = [at EXCEPT ![p] = step]

\* _tcp_open, at the start and after a resume.
Probe(p) ==
  /\ at[p] \in {"idle", "resumed"}
  /\ Go(p, IF at[p] = "idle" THEN "probed" ELSE "again")
  /\ \E k \in PodName :
       /\ at[p] = "resumed" => k = on[p]
       /\ on' = [on EXCEPT ![p] = k] /\ found' = [found EXCEPT ![p] = pod[k] = "open"]
  /\ UNCHANGED << pod, file, held, overlap, good, undue, clock, turns >>

\* _load_ssh_wait_state.
Read(p) ==
  /\ at[p] \in {"probed", "again"}
  /\ Go(p, IF at[p] = "probed" THEN "noting" ELSE "noteagain")
  /\ held' = [held EXCEPT ![p] = file]
  /\ overlap' = (overlap \/ \E q \in Proc \ {p} : at[q] \in {"noting", "noteagain"})
  /\ UNCHANGED << pod, file, on, found, good, undue, clock, turns >>

First(e) == IF e.first = None THEN clock ELSE e.first
Due(e) ==
  /\ clock - First(e) >= Threshold
  /\ e.last = None \/ clock - e.last >= Threshold

\* A success drops the entry.
Cleared(e) == NoEntry

\* A failure rings when it is due and the pod has not exited; the provider is
\* asked only then.  After a failure ssh_preflight resumes the pod, once.
Note(p) ==
  LET k == on[p]
      e == held[p][k]
      rings == ~found[p] /\ Due(e) /\ pod[k] # "exited" IN
  /\ at[p] \in {"noting", "noteagain"}
  /\ file' = [held[p] EXCEPT ![k] =
       IF found[p] THEN Cleared(e)
       ELSE [first |-> First(e), last |-> IF rings THEN clock ELSE e.last]]
  /\ good' = IF found[p] THEN [good EXCEPT ![k] = clock] ELSE good
  /\ undue' = (undue \/ (rings /\ clock - good[k] < Threshold))
  /\ Go(p, IF ~found[p] /\ at[p] = "noting" THEN "resumed" ELSE "idle")
  /\ UNCHANGED << pod, on, found, held, overlap, clock, turns >>

\* _run_resume_subprocess: it wakes a pod that has exited, or fails.
Resume(p) ==
  /\ at[p] = "resumed" /\ pod[on[p]] = "exited"
  /\ \/ \E s \in {"open", "deaf"} : pod' = [pod EXCEPT ![on[p]] = s] /\ UNCHANGED at
     \/ Go(p, "idle") /\ UNCHANGED pod
  /\ UNCHANGED << file, on, found, held, overlap, good, undue, clock, turns >>

Tick ==
  /\ clock < MaxClock /\ clock' = clock + 1
  /\ UNCHANGED << pod, file, at, on, found, held, overlap, good, undue, turns >>

PodTurns(k) ==
  /\ turns < MaxTurns /\ turns' = turns + 1
  /\ \E s \in {"open", "deaf", "exited"} \ {pod[k]} : pod' = [pod EXCEPT ![k] = s]
  /\ UNCHANGED << file, at, on, found, held, overlap, good, undue, clock >>

Next ==
  \/ \E p \in Proc : Probe(p) \/ Read(p) \/ Note(p) \/ Resume(p)
  \/ Tick \/ \E k \in PodName : PodTurns(k)

Spec == Init /\ [][Next]_vars

-----------------------------------------------------------------------------
\* As long as no two notes overlap, an alarm rings only for a pod that no
\* probe has reached for Threshold, and the file has forgotten a failure that
\* lies before a success.
AlarmIsDue ==
  ~overlap =>
    /\ ~undue
    /\ \A k \in PodName : file[k].first # None => file[k].first >= good[k]
=============================================================================
