------------------------------ MODULE LivingDocs -------------------------------
(***************************************************************************)
(* living_docs.py: link, apply, backfill_reverse, mark_unmapped and check  *)
(* on docs/open_questions.md, docs/papers.md and the bodies of the tasks,  *)
(* with another writer of the bodies under the same lock.  One question    *)
(* that carries evidence, one application that carries none.  A process    *)
(* may die, and a commit may fail, between any two writes.                 *)
(***************************************************************************)
EXTENDS Naturals

CONSTANTS
  Proc, Task,
  MaxJobs,     \* commands started
  MaxFaults

Question == {"q", "app"}
Carrier == {"absent", "line", "broken"}   \* broken: an anchor without State or Evidence

VARIABLES
  doc,       \* open_questions.md: carrier and evidence of "q", changelog entries of the patch
  papers,    \* papers.md: the text before the patch, after it, or drifted away from it
  body,      \* the bodies: relates_to, living_docs_unmapped
  place,     \* the status folder of each task
  main,      \* the last commit: doc, papers, body
  lock,      \* the holder of the flock
  at, job,   \* the step of each process; its command and what it has read
  acked,     \* links that have been reported done
  cut,       \* evidence a patch has taken away since
  jobs, faults
vars == << doc, papers, body, place, main, lock, at, job, acked, cut, jobs, faults >>

Doc == [carrier : Carrier, ev : SUBSET Task, entries : Nat]
Body == [Task -> [relates : SUBSET Question, unmapped : BOOLEAN]]
Place == {"running", "completed"}
Command ==
  [op : {"link"}, task : Task, qs : SUBSET Question \ {{}}, papers : {FALSE}]
  \cup [op : {"apply"}, task : Task, qs : {{}}, papers : BOOLEAN]
  \cup [op : {"backfill"}, task : {0}, qs : {{}}, papers : {FALSE}]
  \cup [op : {"unmap", "tag"}, task : Task, qs : {{}}, papers : {FALSE}]
Idle == [op |-> "none"]

TypeOK ==
  /\ doc \in Doc /\ body \in Body /\ place \in [Task -> Place]
  /\ papers \in {"old", "new", "drifted"}
  /\ main.doc \in Doc /\ main.body \in Body /\ main.papers \in {"old", "new", "drifted"}
  /\ lock \in {0} \cup Proc
  /\ at \in [Proc -> {"idle", "lock", "plan", "body", "doc", "papers", "commit"}]
  /\ acked \subseteq Task \X Question /\ cut \subseteq Task
  /\ jobs \in 0..MaxJobs /\ faults \in 0..MaxFaults

Init ==
  /\ doc = [carrier |-> "absent", ev |-> {}, entries |-> 0] /\ papers = "old"
  /\ body = [t \in Task |-> [relates |-> {}, unmapped |-> FALSE]]
  /\ place = [t \in Task |-> "running"]
  /\ main = [doc |-> doc, papers |-> papers, body |-> body]
  /\ lock = 0 /\ at = [p \in Proc |-> "idle"] /\ job = [p \in Proc |-> Idle]
  /\ acked = {} /\ cut = {} /\ jobs = 0 /\ faults = 0

-----------------------------------------------------------------------------
Files == << doc, papers, body >>
Fault == faults < MaxFaults /\ faults' = faults + 1
Go(p, step) == at' = [at EXCEPT ![p] = step]

\* A command ends, done or not: the lock is free, its memory gone.
Ends(p) ==
  /\ lock' = (IF lock = p THEN 0 ELSE lock)
  /\ at' = [at EXCEPT ![p] = "idle"] /\ job' = [job EXCEPT ![p] = Idle]

\* Before the lock: find_task_path of link and mark_unmapped, the document of
\* backfill_reverse.
Start(p) ==
  /\ at[p] = "idle" /\ jobs < MaxJobs /\ jobs' = jobs + 1
  /\ \E c \in Command :
       job' = [job EXCEPT ![p] =
                 [cmd |-> c, place |-> place, doc |-> doc, body |-> body,
                  todo |-> {}, changed |-> {}]]
  /\ Go(p, "lock")
  /\ UNCHANGED << Files, place, main, lock, acked, cut, faults >>

Acquire(p) ==
  /\ at[p] = "lock" /\ lock = 0 /\ lock' = p /\ Go(p, "plan")
  /\ UNCHANGED << Files, place, main, job, acked, cut, jobs, faults >>

\* What a command works on is read under the lock.
Current(p) == [doc |-> doc, body |-> body]

\* _plan_doc_edit: a missing anchor is stubbed, an application leaves the text
\* alone; a section without a carrier refuses the whole command.
Refused(c, d) == "q" \in c.qs /\ d.carrier = "broken"
Edited(c, d) ==
  IF "q" \in c.qs THEN [d EXCEPT !.carrier = "line", !.ev = @ \cup {c.task}] ELSE d

\* backfill_reverse: the tasks of the evidence it has read that miss it.
Unmirrored(p) == { t \in job[p].doc.ev : "q" \notin body[t].relates }

\* Everything is computed before the first write.  A task that has moved since
\* its path was found cannot be read; the text a patch replaces may be gone.
Plan(p) ==
  LET c == job[p].cmd IN
  /\ at[p] = "plan"
  /\ \/ /\ c.op \in {"link", "unmap"}
        /\ place[c.task] # job[p].place[c.task] \/ Refused(c, doc)
        /\ Ends(p)
     \/ /\ \/ c.op = "link" /\ place[c.task] = job[p].place[c.task] /\ ~Refused(c, doc)
           \/ c.op = "unmap" /\ place[c.task] = job[p].place[c.task]
           \/ c.op = "tag"
        /\ Go(p, "body") /\ UNCHANGED lock
        /\ job' = [job EXCEPT ![p] = [@ EXCEPT !.doc = Current(p).doc,
                     !.body = Current(p).body,
                     !.todo = {c.task}, !.changed = {c.task}]]
     \/ /\ c.op = "backfill" /\ Unmirrored(p) # {}
        /\ Go(p, "body") /\ UNCHANGED lock
        /\ job' = [job EXCEPT ![p] = [@ EXCEPT !.body = body,
                     !.todo = Unmirrored(p), !.changed = Unmirrored(p)]]
     \/ c.op = "backfill" /\ Unmirrored(p) = {} /\ Ends(p)
     \/ c.op = "apply" /\ Go(p, "doc") /\ UNCHANGED << lock, job >>
     \/ c.op = "apply" /\ Ends(p)
  /\ UNCHANGED << Files, place, main, acked, cut, jobs, faults >>

\* mark_unmapped sets a flag, link and backfill_reverse add to the list; "tag"
\* stands for the commands of task_workflow that rewrite a body and keep the
\* rest of its front matter.
Rewritten(c, b) ==
  CASE c.op = "link" -> [b EXCEPT !.relates = @ \cup c.qs]
    [] c.op = "backfill" -> [b EXCEPT !.relates = @ \cup {"q"}]
    [] c.op = "unmap" -> [b EXCEPT !.unmapped = TRUE]
    [] c.op = "tag" -> b

\* One body after the other.
WriteBody(p) ==
  LET c == job[p].cmd IN
  /\ at[p] = "body"
  /\ \E t \in job[p].todo :
       /\ body' = [body EXCEPT ![t] = Rewritten(c, job[p].body[t])]
       /\ IF job[p].todo # {t} THEN job' = [job EXCEPT ![p].todo = @ \ {t}] /\ UNCHANGED at
          ELSE Go(p, IF c.op = "link" THEN "doc" ELSE "commit") /\ UNCHANGED job
  /\ UNCHANGED << doc, papers, place, main, lock, acked, cut, jobs, faults >>

\* A confirmed patch rewrites evidence as it likes and adds its changelog line.
WriteDoc(p) ==
  LET c == job[p].cmd IN
  /\ at[p] = "doc"
  /\ \/ /\ c.op = "link"
        /\ doc' = Edited(c, job[p].doc) /\ UNCHANGED cut
        /\ Go(p, "commit")
     \/ /\ c.op = "apply"
        /\ \E ev \in {doc.ev \ {c.task}, doc.ev \cup {c.task}}, k \in {doc.carrier, "broken"} :
             /\ k # "absent" \/ ev = {}
             /\ doc' = [carrier |-> k, ev |-> IF k = "broken" THEN {} ELSE ev,
                        entries |-> IF doc.entries < 2 THEN doc.entries + 1 ELSE 2]
             /\ cut' = cut \cup (doc.ev \ doc'.ev)
        /\ Go(p, IF c.papers THEN "papers" ELSE "commit")
  /\ UNCHANGED << papers, body, place, main, lock, job, acked, jobs, faults >>

\* papers.md comes second: its text may not match when the first file is written.
WritePapers(p) ==
  /\ at[p] = "papers"
  /\ \/ papers = "old" /\ papers' = "new" /\ Go(p, "commit") /\ UNCHANGED << lock, job >>
     \/ papers # "old" /\ UNCHANGED papers /\ Ends(p)
  /\ UNCHANGED << doc, body, place, main, acked, cut, jobs, faults >>

\* link adds the document only when the text has changed.
Paths(p) ==
  LET c == job[p].cmd IN
  IF c.op = "apply" \/ (c.op = "link" /\ Edited(c, job[p].doc) # job[p].doc) THEN {"doc"} ELSE {}

\* git commit --only takes the files as they are.
Commit(p) ==
  LET c == job[p].cmd IN
  /\ at[p] = "commit" /\ Ends(p)
  /\ main' = [doc |-> IF "doc" \in Paths(p) THEN doc ELSE main.doc,
              papers |-> IF c.papers THEN papers ELSE main.papers,
              body |-> [t \in Task |-> IF t \in job[p].changed THEN body[t] ELSE main.body[t]]]
  /\ acked' = acked \cup ({c.task} \X c.qs)
  /\ cut' = IF "q" \in c.qs THEN cut \ {c.task} ELSE cut
  /\ UNCHANGED << Files, place, jobs, faults >>

\* git fails, or the process dies: what is written stays.
Fails(p) ==
  /\ at[p] \in {"body", "doc", "papers", "commit"} /\ Fault /\ Ends(p)
  /\ UNCHANGED << Files, place, main, acked, cut, jobs >>

Moved ==
  /\ lock = 0 /\ \E t \in Task : place' = [place EXCEPT ![t] = "completed"]
  /\ UNCHANGED << Files, main, lock, at, job, acked, cut, jobs, faults >>

PapersEdited ==
  /\ lock = 0 /\ papers = "old" /\ papers' = "drifted"
  /\ UNCHANGED << doc, body, place, main, lock, at, job, acked, cut, jobs, faults >>

Next ==
  \/ \E p \in Proc :
       \/ Start(p) \/ Acquire(p) \/ Plan(p) \/ WriteBody(p) \/ WriteDoc(p)
       \/ WritePapers(p) \/ Commit(p) \/ Fails(p)
  \/ Moved \/ PapersEdited

Spec == Init /\ [][Next]_vars

-----------------------------------------------------------------------------
(* check, on a document and bodies read without the lock. *)
\* _collect_question_evidence: a section without its line shows no evidence.
Evidence(d) == IF d.carrier = "line" THEN d.ev ELSE {}
Structural(d) == d.carrier = "broken"
Bidirectional(d, b) == \E t \in Task : ("q" \in b[t].relates) # (t \in Evidence(d))
Coverage(d, b) ==
  \E t \in Task : place[t] = "completed" /\ ~b[t].unmapped /\ t \notin Evidence(d)
Drift(d, b) == Structural(d) \/ Bidirectional(d, b) \/ Coverage(d, b)

\* A link that has been reported stays in the body of its task, whoever writes
\* that body next, and in the evidence until a patch takes it away; with the
\* lock free, no fault and no patch, the two lists agree and check reports nothing
\* but a completed task without a link.
LinksKept ==
  /\ \A l \in acked : l[2] \in body[l[1]].relates
  /\ \A t \in Task : << t, "q" >> \in acked => t \in doc.ev \cup cut
  /\ lock = 0 /\ faults = 0 /\ doc.entries = 0 =>
       ~Bidirectional(doc, body) /\ (Drift(doc, body) => Coverage(doc, body))
=============================================================================
