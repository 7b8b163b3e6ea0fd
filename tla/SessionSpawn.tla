---------------------------- MODULE SessionSpawn ----------------------------
(***************************************************************************)
(* scripts/spawn_session.py: calls that open a session at the Happy daemon *)
(* and then write the registry the watcher reads.  The daemon answers,     *)
(* refuses, or answers too late; a call that timed out looks for a session *)
(* that may be its own and adopts it.                                      *)
(***************************************************************************)
EXTENDS Naturals, Sequences

CONSTANTS Issue,       \* issues
          Session,     \* session ids
          MaxCalls,    \* bound: calls, numbered as they start
          MaxClock,    \* bound: openings, starts and registrations
          PmCap        \* _PM_SESSION_MAX_IDS

VARIABLES
  session,   \* session[s]: what the daemon and sessions.json know of it
  registry,  \* registry[kind][i]: issue-i.json, manual-issue-i.json, ...
  pm,        \* pm-session.json, oldest first
  call,      \* call[c]: the process that makes call c
  asked,     \* requests the daemon has and has not acted upon
  clock,     \* orders openings, starts and registrations
  calls,
  failed     \* history: calls that timed out or could not write or stop

vars == << session, registry, pm, call, asked, clock, calls, failed >>

-----------------------------------------------------------------------------
Kinds == {"issue", "manual", "campaign"}
NoSession == [state |-> "none", dir |-> 0, since |-> 0, kind |-> "pm", issue |-> 0, by |-> 0]
NoEntry == [sid |-> 0, ts |-> 0]
Root == 0                       \* the repository root as a directory
Idle == [pc |-> "idle", kind |-> "pm", issue |-> 0, dir |-> Root, start |-> 0, sid |-> 0]
Call == 1 .. MaxCalls

Live == {s \in Session : session[s].state = "live"}
Go(c, pc) == call' = [call EXCEPT ![c].pc = pc]
Over(c) == call' = [call EXCEPT ![c] = [Idle EXCEPT !.pc = "over"]]

-----------------------------------------------------------------------------
\* cmd_spawn_issue, cmd_spawn_pm, cmd_spawn_campaign up to the POST.  The
\* session opens in the worktree of the issue when there is one; a campaign
\* and the PM always in the root.
Post(kind, issue, dir) ==
  /\ calls < MaxCalls
  /\ kind \in {"pm", "campaign"} => dir = Root
  /\ calls' = calls + 1 /\ clock' = clock + 1
  /\ call' = [call EXCEPT ![calls + 1] = [pc |-> "posted", kind |-> kind, issue |-> issue,
                                         dir |-> dir, start |-> clock, sid |-> 0]]
  /\ asked' = asked \cup {[kind |-> kind, issue |-> issue, dir |-> dir, by |-> calls + 1]}
  /\ UNCHANGED << session, registry, pm, failed >>

\* The daemon opens the session of a request, perhaps when nobody waits any
\* more; sessions.json has its directory and its time with it.
Opens(r, s) ==
  /\ r \in asked /\ asked' = asked \ {r} /\ session[s].state = "none"
  /\ session' = [session EXCEPT ![s] =
       [state |-> "live", dir |-> r.dir, since |-> clock,
        kind |-> r.kind, issue |-> r.issue, by |-> r.by]]
  /\ clock' = clock + 1
  /\ IF call[r.by].pc = "posted" THEN call' = [call EXCEPT ![r.by].sid = s] ELSE UNCHANGED call
  /\ UNCHANGED << registry, pm, calls, failed >>

Replies(c) ==
  /\ call[c].pc = "posted" /\ call[c].sid # 0 /\ Go(c, "register")
  /\ UNCHANGED << session, registry, pm, clock, calls, failed, asked >>

\* An HTTP error, no daemon, success: false: the call exits.
Refuses(c) ==
  /\ call[c].pc = "posted" /\ call[c].sid = 0 /\ Over(c)
  /\ asked' = {r \in asked : r.by # c}
  /\ UNCHANGED << session, registry, pm, clock, calls, failed >>

\* _reconcile_spawn_after_timeout: the one live session in the directory that
\* opened since the call began, give or take the slack; 0 for none or several.
Adoptable(dir, start) ==
  LET cand == {s \in Live : session[s].dir = dir /\ session[s].since + 1 >= start} IN
  IF \E s \in cand : cand = {s} THEN CHOOSE s \in cand : TRUE ELSE 0

TimesOut(c) ==
  /\ call[c].pc = "posted"
  /\ failed' = failed \cup {c}
  /\ LET s == Adoptable(call[c].dir, call[c].start) IN
     IF s # 0 THEN call' = [call EXCEPT ![c].sid = s, ![c].pc = "register"]
              ELSE Over(c)
  /\ UNCHANGED << session, registry, pm, clock, calls, asked >>

-----------------------------------------------------------------------------
LastOf(seq) == SubSeq(seq, IF Len(seq) > PmCap THEN Len(seq) - PmCap + 1 ELSE 1, Len(seq))

\* pm-session.json without s, which it holds at most once.
PmWithout(s) ==
  LET at == {j \in 1 .. Len(pm) : pm[j] = s} IN
  IF at = {} THEN pm
  ELSE LET j == CHOOSE j \in at : TRUE IN SubSeq(pm, 1, j - 1) \o SubSeq(pm, j + 1, Len(pm))

\* _register_pm_session: the id moves to the end, the oldest ones fall off.
PmWith(s) == LastOf(Append(PmWithout(s), s))

Enter(kind, issue, s) ==
  registry' = [registry EXCEPT ![kind][issue] = [sid |-> s, ts |-> clock]]

Registers(c) ==
  /\ call[c].pc = "register" /\ Over(c)
  /\ IF call[c].kind = "pm"
       THEN pm' = PmWith(call[c].sid) /\ UNCHANGED registry
       ELSE Enter(call[c].kind, call[c].issue, call[c].sid) /\ UNCHANGED pm
  /\ clock' = clock + 1
  /\ UNCHANGED << session, calls, failed, asked >>

\* The file cannot be written: an autonomous session is stopped, which may
\* fail too; any other lives on unlisted.
CannotRegister(c) ==
  /\ call[c].pc = "register" /\ Over(c)
  /\ \/ /\ call[c].kind \in {"issue", "campaign"}
        /\ session' = [session EXCEPT ![call[c].sid].state = "dead"]
        /\ UNCHANGED failed
     \/ failed' = failed \cup {c} /\ UNCHANGED session
  /\ UNCHANGED << registry, pm, clock, calls, asked >>

\* register-current and register-pm, called inside a live session: the mode is
\* the one the session was opened with.
RegisterCurrent(s) ==
  /\ s \in Live /\ clock' = clock + 1
  /\ IF session[s].kind = "pm" THEN pm' = PmWith(s) /\ UNCHANGED registry
     ELSE Enter(session[s].kind, session[s].issue, s) /\ UNCHANGED pm
  /\ UNCHANGED << session, call, calls, failed, asked >>

\* cmd_stop, or the session's own end.
Ends(s) ==
  /\ s \in Live /\ session' = [session EXCEPT ![s].state = "dead"]
  /\ UNCHANGED << registry, pm, call, clock, calls, failed, asked >>

-----------------------------------------------------------------------------
\* resolve_session_for_issue: a live session before a dead one, then the
\* newest; 0 when no entry names one.
Resolve(i) ==
  LET cand == {registry[k][i] : k \in Kinds} \ {NoEntry}
      pool == IF \E e \in cand : e.sid \in Live THEN {e \in cand : e.sid \in Live} ELSE cand IN
  IF pool = {} THEN 0
  ELSE (CHOOSE e \in pool : \A f \in pool : e.ts >= f.ts).sid

\* _load_session_issue_map: the issue of the newest entry that names s.
IssueOf(s) ==
  LET at == {k \in Kinds \X Issue : registry[k[1]][k[2]].sid = s} IN
  IF at = {} THEN 0
  ELSE (CHOOSE k \in at : \A m \in at :
          registry[k[1]][k[2]].ts >= registry[m[1]][m[2]].ts)[2]

Init ==
  /\ session = [s \in Session |-> NoSession]
  /\ registry = [k \in Kinds |-> [i \in Issue |-> NoEntry]]
  /\ pm = << >> /\ call = [c \in Call |-> Idle] /\ asked = {}
  /\ clock = 1 /\ calls = 0 /\ failed = {}

Next ==
  \/ \E k \in Kinds, i \in Issue : \E d \in {Root, i} : Post(k, i, d)
  \/ Post("pm", 0, Root)
  \/ \E r \in asked, s \in Session : Opens(r, s)
  \/ \E c \in Call :
       Replies(c) \/ Refuses(c) \/ TimesOut(c) \/ Registers(c) \/ CannotRegister(c)
  \/ \E s \in Session : Ends(s) \/ (clock < MaxClock /\ RegisterCurrent(s))

Spec == Init /\ [][Next]_vars

-----------------------------------------------------------------------------
TypeOK ==
  /\ \A s \in Session : session[s].state \in {"none", "live", "dead"}
  /\ registry \in [Kinds -> [Issue -> [sid : Session \cup {0}, ts : 0 .. clock]]]
  /\ Len(pm) <= PmCap /\ \A j, k \in DOMAIN pm : pm[j] = pm[k] => j = k
  /\ failed \subseteq Call

Serving == {c \in Call : call[c].pc # "over"}

\* "a live --auto session MUST have a current registry entry, else the watcher
\* could re-spawn it": an autonomous session that lives after its call is named
\* by the file of its issue, unless a later session took the file over or its
\* call failed.
LiveIsRegistered ==
  \A s \in Live :
    session[s].kind \in {"issue", "campaign"} /\ session[s].by \notin failed \cup Serving
      => LET e == registry[session[s].kind][session[s].issue] IN
         e.sid = s \/ \E t \in Session : e.sid = t /\ e.ts > session[s].since

\* As long as no call times out, a session is found under the issue it was
\* opened for, and an issue's sessions were opened for it.
MapsAgree ==
  failed = {} =>
    /\ \A i \in Issue : Resolve(i) # 0 => session[Resolve(i)].issue = i
    /\ \A s \in Session : IssueOf(s) # 0 => session[s].issue = IssueOf(s)
=============================================================================
