----------------------------- MODULE ReplayJobs -----------------------------
(***************************************************************************)
(* Replays of a crash: POST /api/runs/[id]/replay, the job store           *)
(* (lib/replay/job-state.ts, job-store.ts) and the event stream of a job   *)
(* (api/replay-jobs/[id]/stream).                                          *)
(*                                                                         *)
(* A job is named by the call that created it.  A job that left the store  *)
(* keeps its record here with kept = FALSE; the program has none.  Its     *)
(* events are their sequence numbers, in whose order the array is.  Times  *)
(* are ages: how long ago a job was updated, up to the first age at which  *)
(* prune() drops it.                                                       *)
(***************************************************************************)
EXTENDS Integers, FiniteSetsExt

CONSTANTS
  Posts,          \* calls of POST /api/runs/[id]/replay; bound: each once
  Fields,         \* of an environment fingerprint
  Recorded,       \* the fingerprint of the run that crashed
  Environments,   \* fingerprints that callers send
  Clients,        \* readers of event streams
  Resuming,       \* those that reconnect with ?after=<last seq>
  MaxOpens,       \* bound: connections of each client
  MaxJobs,        \* MAX_RETAINED_JOBS
  Ttl,            \* DEFAULT_JOB_TTL_MS
  MaxEvents,      \* MAX_JOB_EVENTS
  Unset, NoJob

VARIABLES
  jobs,      \* the store, by job
  post,      \* per call: where its handler is, and its answer
  client     \* per client: its connection and what it has received

replayVars == <<jobs, post, client>>

ASSUME ReplayAssumption ==
  /\ Resuming \subseteq Clients
  /\ MaxOpens \in [Clients -> Nat]
  /\ {MaxJobs, Ttl, MaxEvents} \subseteq Nat \ {0}
  /\ MaxEvents >= 5     \* the events of the longest replay; the code has 200
  /\ IsFiniteSet(Posts)
  /\ NoJob \notin Posts

Runners == {"mock", "host", "rpc-sim"}

Terminal == {"succeeded", "mismatch", "failed", "cancelled"}

Statuses == {"queued", "running"} \cup Terminal

(* percent is the last event's. *)
Job == [kept : BOOLEAN, number : Nat, status : Statuses, events : SUBSET Nat,
        percent : 0 .. 100, age : 0 .. Ttl + 1]

ASSUME NoJobAssumption == NoJob \notin Job

Post == [at : {"idle", "bundle", "runner", "done"},
         answer : {"none", "conflict", "finished", "error"}]

(* cursor is the server's, last and frames are the client's.               *)
Client == [conn : {"none", "open", "closed"}, job : Posts \cup {NoJob}, opens : Nat,
           cursor : Nat, last : Nat, frames : Nat, told : Statuses \cup {"nothing"}]

ReplayTypeOK == /\ jobs \in [Posts -> Job \cup {NoJob}]
                /\ post \in [Posts -> Post]
                /\ client \in [Clients -> Client]

ReplayInit ==
  /\ jobs = [p \in Posts |-> NoJob]
  /\ post = [p \in Posts |-> [at |-> "idle", answer |-> "none"]]
  /\ client = [c \in Clients |-> [conn |-> "none", job |-> NoJob, opens |-> 0,
                                  cursor |-> 0, last |-> 0, frames |-> 0,
                                  told |-> "nothing"]]

----------------------------------------------------------------------------
(* lib/replay/environment.ts. *)

Mismatches(expected, actual) ==
  {f \in Fields : /\ expected[f] # Unset /\ actual[f] # Unset
                  /\ expected[f] # actual[f]}

mayRunReplay(expected, actual, acknowledged) ==
  Mismatches(expected, actual) = {} \/ acknowledged

----------------------------------------------------------------------------
(* lib/replay/job-state.ts. *)

JOB_TRANSITIONS ==
  [queued  |-> {"running", "failed", "cancelled"},
   running |-> {"succeeded", "mismatch", "failed", "cancelled"}]

(* Mutant: a running job cannot end in a mismatch. *)
canTransitionNarrow(from, to) ==
  from \notin Terminal /\ (from = to \/ to \in JOB_TRANSITIONS[from] \ {"mismatch"})

canTransitionJob(from, to) ==
  from \notin Terminal /\ (from = to \/ to \in JOB_TRANSITIONS[from])

transitionJob(job, to) ==
  IF canTransitionJob(job.status, to) THEN [job EXCEPT !.status = to, !.age = 0] ELSE job

LastSeq(job) == IF job.events = {} THEN 0 ELSE Max(job.events)

Newest(events, n) == {e \in events : Cardinality({f \in events : f >= e}) <= n}

(* The percentage never goes back; the oldest events leave a full log. *)
appendJobEvent(job, percent) ==
  [job EXCEPT !.age = 0,
     !.events  = Newest(@ \cup {LastSeq(job) + 1}, MaxEvents),
     !.percent = IF percent < @ THEN @ ELSE percent]

(* Mutant: the event at the cursor is sent again. *)
eventsFrom(job, seq) == {e \in job.events : e >= seq}

eventsAfter(job, seq) == {e \in job.events : e > seq}

----------------------------------------------------------------------------
(* lib/replay/job-store.ts. *)

Kept(js) == {p \in Posts : js[p] # NoJob /\ js[p].kept}

Without(js, gone) ==
  [p \in Posts |-> IF p \in gone THEN [js[p] EXCEPT !.kept = FALSE, !.age = 0]
                  ELSE js[p]]

(* Mutant: a job that is not over is never pruned. *)
pruneFinished(js) ==
  Without(js, {p \in Kept(js) : js[p].age > Ttl /\ js[p].status \in Terminal})

prune(js) == Without(js, {p \in Kept(js) : js[p].age > Ttl})

enforceCapacity(js) ==
  Without(js, {p \in Kept(js) :
     Cardinality({q \in Kept(js) : js[q].number >= js[p].number}) > MaxJobs})

NewJob == [kept |-> TRUE, status |-> "queued", events |-> {}, percent |-> 0, age |-> 0,
           number |-> Cardinality({p \in Posts : jobs[p] # NoJob}) + 1]

create(p) == enforceCapacity([prune(jobs) EXCEPT ![p] = appendJobEvent(NewJob, 0)])

(* appendEvent and transition do nothing for a job that is gone. *)
Updated(js, p, job) == IF js[p].kept THEN [js EXCEPT ![p] = job] ELSE js

----------------------------------------------------------------------------
(* POST /api/runs/[id]/replay. *)

Answer(p, answer) == post' = [post EXCEPT ![p] = [at |-> "done", answer |-> answer]]

(* A mismatch is refused before there is a job. *)
Refuse(p, environment) ==
  /\ post[p].at = "idle"
  /\ ~mayRunReplay(Recorded, environment, FALSE)
  /\ Answer(p, "conflict")
  /\ UNCHANGED <<jobs, client>>

Failed(job, percent, status) == transitionJob(appendJobEvent(job, percent), status)

Succeeded(job, percent) ==
  appendJobEvent(transitionJob(appendJobEvent(job, percent), "succeeded"), 100)

(* The handler up to its first await after the job exists: the mock and    *)
(* the missing RPC runner are over by then.                                *)
Start(p, runner, environment, acknowledged) ==
  /\ post[p].at = "idle"
  /\ mayRunReplay(Recorded, environment, acknowledged)
  /\ LET js      == create(p)
         started == transitionJob(appendJobEvent(js[p], 15), "running")
     IN  \/ /\ runner = "rpc-sim"
            /\ jobs' = Updated(js, p, Failed(started, 45, "failed"))
            /\ Answer(p, "finished")
         \/ /\ runner = "mock"
            /\ jobs' = Updated(js, p, Succeeded(appendJobEvent(started, 55), 85))
            /\ Answer(p, "finished")
         \/ /\ runner = "host"
            /\ jobs' = Updated(js, p, started)
            /\ post' = [post EXCEPT ![p].at = "bundle"]
  /\ UNCHANGED client

WriteBundle(p) ==
  /\ post[p].at = "bundle"
  /\ jobs' = Updated(jobs, p, appendJobEvent(jobs[p], 40))
  /\ post' = [post EXCEPT ![p].at = "runner"]
  /\ UNCHANGED client

(* The catch of the handler answers 500 and does not touch the job. *)
WriteBundleThrows(p) ==
  /\ post[p].at = "bundle"
  /\ Answer(p, "error")
  /\ UNCHANGED <<jobs, client>>

RunnerEnds(p, outcome) ==
  /\ post[p].at = "runner"
  /\ jobs' = Updated(jobs, p, IF outcome = "succeeded" THEN Succeeded(jobs[p], 90)
                              ELSE Failed(jobs[p], 85, outcome))
  /\ Answer(p, "finished")
  /\ UNCHANGED client

(* GET /api/replay-jobs/[id] and the result page: a read prunes. *)
Read == /\ jobs' = prune(jobs)
        /\ UNCHANGED <<post, client>>

----------------------------------------------------------------------------
(* GET /api/replay-jobs/[id]/stream. *)

(* Mutant: the end of the job is looked at before its events. *)
flushDoneFirst(s, job) ==
  LET events == eventsAfter(job, s.cursor)
      seq    == IF events = {} THEN s.cursor ELSE Max(events)
  IN IF job.status \in Terminal
     THEN [s EXCEPT !.told = job.status, !.conn = "closed"]
     ELSE [s EXCEPT !.cursor = seq, !.last = seq, !.conn = "open",
                    !.frames = @ + Cardinality(events)]

(* flush(): the events after the cursor, then done and the end of the      *)
(* stream if the job is over.                                              *)
flush(s, job) ==
  LET events == eventsAfter(job, s.cursor)
      over   == job.status \in Terminal
  IN [s EXCEPT !.cursor = IF events = {} THEN @ ELSE Max(events),
               !.last   = IF events = {} THEN @ ELSE Max(events),
               !.frames = @ + Cardinality(events),
               !.told   = IF over THEN job.status ELSE @,
               !.conn   = IF over THEN "closed" ELSE "open"]

closed(s) == [s EXCEPT !.conn = "closed"]

Served(s, js) == IF js[s.job].kept THEN flush(s, js[s.job]) ELSE closed(s)

(* A client without ?after is sent everything from the start. *)
Open(c, j) ==
  LET s == client[c]
      after == IF c \in Resuming THEN s.last ELSE 0
      fresh == [s EXCEPT !.job = j, !.opens = @ + 1, !.cursor = after, !.last = after,
                         !.frames = IF c \in Resuming THEN @ ELSE 0]
  IN /\ s.conn = "none" /\ s.opens < MaxOpens[c]
     /\ s.job \in {NoJob, j}
     /\ jobs[j] # NoJob
     /\ jobs' = prune(jobs)
     /\ client' = [client EXCEPT ![c] = Served(fresh, prune(jobs))]
     /\ UNCHANGED post

Poll(c) ==
  /\ client[c].conn = "open"
  /\ jobs' = prune(jobs)
  /\ client' = [client EXCEPT ![c] = Served(client[c], prune(jobs))]
  /\ UNCHANGED post

(* The connection breaks: of the frames under way the first few arrived.   *)
Break(c) ==
  LET s == client[c]
      pending == IF s.job \in Kept(jobs) THEN eventsAfter(jobs[s.job], s.cursor) ELSE {}
  IN /\ s.conn = "open"
     /\ \E seq \in pending \cup {s.last} :
          client' = [client EXCEPT ![c] =
            [s EXCEPT !.conn = "none", !.last = seq,
                      !.frames = @ + Cardinality({e \in pending : e <= seq})]]
     /\ UNCHANGED <<jobs, post>>

JobsAge ==
  /\ jobs' = [p \in Posts |->
       IF p \in Kept(jobs) /\ jobs[p].age <= Ttl THEN [jobs[p] EXCEPT !.age = @ + 1]
       ELSE jobs[p]]
  /\ UNCHANGED <<post, client>>

----------------------------------------------------------------------------

Settle(p) ==
  \/ WriteBundle(p) \/ WriteBundleThrows(p)
  \/ \E outcome \in {"succeeded", "mismatch", "failed"} : RunnerEnds(p, outcome)

ReplayNext ==
  \/ \E p \in Posts :
       \/ \E environment \in Environments :
            \/ Refuse(p, environment)
            \/ \E runner \in Runners, acknowledged \in BOOLEAN :
                 Start(p, runner, environment, acknowledged)
       \/ Settle(p)
  \/ Read
  \/ \E c \in Clients : \/ \E j \in Posts : Open(c, j)
                        \/ Poll(c)
                        \/ Break(c)
  \/ JobsAge

ReplaySpec == ReplayInit /\ [][ReplayNext]_replayVars

(* The poll timer of an open stream fires and time passes.  Nothing is     *)
(* assumed of the runner: it has no timeout and may hang.                  *)
FairReplaySpec ==
  ReplaySpec /\ WF_replayVars(JobsAge) /\ \A c \in Clients : WF_replayVars(Poll(c))

----------------------------------------------------------------------------
(* Properties. *)

(* "replay only what it missed" (stream/route.ts 22-23): a client that     *)
(* reconnects with its last sequence number has received every event up to *)
(* it, each one once, wherever connections broke.                          *)
ResumeExact == \A c \in Resuming : client[c].frames = client[c].last

(* A client that is told the job is over has all of its events, among them *)
(* the last one, and the status it is told is the one the job keeps; the   *)
(* server ends a stream in no other case, unless the job left the store.   *)
DoneIsComplete ==
  \A c \in Clients :
    LET job == jobs[client[c].job] IN
    /\ client[c].told # "nothing" =>
         job.status = client[c].told /\ client[c].last = LastSeq(job)
    /\ client[c].conn = "closed" => client[c].told # "nothing" \/ ~job.kept

(* A job of the store that is not over has a handler that is still at work *)
(* on it.  The exception is in the code: when the bundle cannot be written *)
(* the handler's catch leaves the job running (route.ts 640-643).          *)
RunningIsAttended ==
  \A p \in Kept(jobs) :
    jobs[p].status \notin Terminal =>
      post[p].at \in {"bundle", "runner"} \/ post[p].answer = "error"

(* Why these hold.  Of a job: its log is never trimmed, for a replay has   *)
(* few events, and while its handler is at work it runs, if it is kept.    *)
JobInv ==
  \A p \in Posts :
    /\ post[p].at = "idle" => jobs[p] = NoJob
    /\ post[p].at \in {"bundle", "runner"} => jobs[p] # NoJob
    /\ jobs[p] # NoJob =>
         \E n \in 1 .. 5 : /\ jobs[p].events = 1 .. n
                           /\ post[p].at = "bundle" => n <= 2
                           /\ post[p].at = "runner" => n <= 3
    /\ p \in Kept(jobs) /\ post[p].at \in {"bundle", "runner"}
         => jobs[p].status = "running"

(* Of a stream: the server's cursor is where the client is, no further     *)
(* than the job, and who is told of the end is told last.                  *)
StreamInv ==
  \A c \in Clients :
    LET s == client[c] IN
    /\ s.frames = s.last
    /\ s.conn = "open" => s.cursor = s.last
    /\ s.job = NoJob => s.conn = "none" /\ s.last = 0 /\ s.told = "nothing"
    /\ s.job # NoJob => jobs[s.job] # NoJob /\ s.last <= LastSeq(jobs[s.job])
    /\ s.told # "nothing" => s.conn = "closed" /\ s.told \in Terminal

(* "a finished job cannot leave a tab subscribing forever" (stream/        *)
(* route.ts 24-25), and neither can one whose runner hangs or whose        *)
(* handler failed: it is pruned under the stream.                          *)
StreamEnds == \A c \in Clients : client[c].conn = "open" ~> client[c].conn # "open"
=============================================================================
