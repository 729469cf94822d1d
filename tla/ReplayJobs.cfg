\* Two replays in a store for one job, a client that resumes and one that does not.
SPECIFICATION FairReplaySpec
CONSTANTS
  Posts = {p1, p2}
  Fields = {"engineVersion"}
  Recorded <- MCRecorded
  Environments <- MCEnvironments
  Clients = {api, page}
  Resuming = {api}
  MaxOpens <- MCMaxOpens
  MaxJobs = 1
  Ttl = 1
  MaxEvents = 6
  Unset = Unset
  NoJob = NoJob
INVARIANTS
  ResumeExact
  DoneIsComplete
  RunningIsAttended
PROPERTY
  StreamEnds
