---------------------------- MODULE FileTransfer ----------------------------
(***************************************************************************)
(* What a user of serlink may rely on when PCLink2 runs on the Oberon side: *)
(* a transfer copies a whole file or nothing, it is reported as done only   *)
(* after the copy, and a copy that was made is not reported as failed.      *)
(***************************************************************************)
CONSTANTS Name, Content, NoFile

VARIABLES
  host, oberon,   \* contents of the files on either side
  job,            \* the command at work: kind, file name, and whether it is done
  report          \* what the user was told of the last command

vars == << host, oberon, job, report >>

Idle == [kind |-> "none"]
Job(kind, n, done) == [kind |-> kind, name |-> n, done |-> done]

TypeOK ==
  /\ host \in [Name -> Content \cup {NoFile}]
  /\ oberon \in [Name -> Content \cup {NoFile}]
  /\ job \in {Idle} \cup [kind : {"h2o", "o2h", "other"}, name : Name, done : BOOLEAN]
  /\ report \in {"none", "done", "failed"}

Init ==
  /\ host \in [Name -> Content \cup {NoFile}]
  /\ oberon \in [Name -> Content \cup {NoFile}]
  /\ job = Idle /\ report = "none"

(* The user asks for a transfer.  Fetching a file first clears the host's    *)
(* file of that name.                                                        *)
Begin(kind, n) ==
  /\ job = Idle
  /\ kind = "h2o" => host[n] # NoFile
  /\ job' = Job(kind, n, FALSE) /\ report' = "none"
  /\ host' = IF kind = "o2h" THEN [host EXCEPT ![n] = << >>] ELSE host
  /\ UNCHANGED oberon

Copy ==
  /\ job # Idle /\ ~ job.done
  /\ \/ /\ job.kind = "h2o" /\ host[job.name] # NoFile
        /\ oberon' = [oberon EXCEPT ![job.name] = host[job.name]]
        /\ UNCHANGED host
     \/ /\ job.kind = "o2h" /\ oberon[job.name] # NoFile
        /\ host' = [host EXCEPT ![job.name] = oberon[job.name]]
        /\ UNCHANGED oberon
     \/ /\ job.kind = "other"
        /\ UNCHANGED << host, oberon >>
  /\ job' = [job EXCEPT !.done = TRUE]
  /\ UNCHANGED report

(* The command is reported as successful exactly if it has been done.        *)
Report ==
  /\ job # Idle
  /\ report' = IF job.done THEN "done" ELSE "failed"
  /\ job' = Idle
  /\ UNCHANGED << host, oberon >>

Next ==
  \/ \E kind \in {"h2o", "o2h", "other"}, n \in Name : Begin(kind, n)
  \/ Copy
  \/ Report

Spec == Init /\ [][Next]_vars
=============================================================================
