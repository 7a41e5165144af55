----------------------------- MODULE JobStreams -----------------------------
(***************************************************************************)
(* The event streams of the jobs: subscribe and append of JobManager, the  *)
(* SSE route that turns a subscription into a response (jobs/routes.ts)    *)
(* and a client that reads one job's stream and resumes it with            *)
(* Last-Event-ID after a lost connection (HfpClient.streamJobEvents).      *)
(*                                                                         *)
(* This module extends JobManager: each of its steps also delivers the     *)
(* events it appends, synchronously, to the subscribers of the job.  An    *)
(* event is its seq; its kind is events[job][seq + 1].                     *)
(***************************************************************************)
EXTENDS JobManager

CONSTANTS
  Conns,    \* connections the client may open, one after the other
  Watched   \* the job the client follows

ASSUME WatchedAssumption == Watched \in Jobs

VARIABLES
  route,    \* per connection: "unused", "live" (subscribed) or "ended"
  link,     \* connections the client has not lost
  wire,     \* seqs written to the connection and not read yet
  seen      \* seqs the client has read, over all its connections

streamVars == <<route, link, wire, seen>>

Seqs(from, to) == [n \in 1..(to - from) |-> from + n - 1]

StreamInit ==
  /\ Init
  /\ route = [c \in Conns |-> "unused"]
  /\ link = {}
  /\ wire = [c \in Conns |-> <<>>]
  /\ seen = <<>>

(***************************************************************************)
(* What a step of the manager does to the live routes: onEvent writes what *)
(* append buffered, and ends the response after a result event; onClose    *)
(* ends it when the record is dropped.  A write to a lost connection goes  *)
(* nowhere.                                                                *)
(***************************************************************************)
Deliver ==
  LET old == Len(events[Watched])
      new == Len(events'[Watched])
      hasResult == \E n \in (old + 1)..new : events'[Watched][n] = "result"
      live == {c \in Conns : route[c] = "live"}
  IN /\ wire' = [c \in Conns |-> IF c \in live \cap link
                                 THEN wire[c] \o Seqs(old, new) ELSE wire[c]]
     /\ route' = [c \in Conns |->
                    IF c \in live /\ (hasResult \/ Watched \notin records')
                    THEN "ended" ELSE route[c]]
     /\ UNCHANGED <<link, seen>>

(***************************************************************************)
(* The client opens a connection, from the seq after the last it has read: *)
(* streamJobEvents sends Last-Event-ID = fromSeq - 1 and parseLastEventId  *)
(* adds the one back.  The route checks the job is there and owned, then   *)
(* subscribe replays what is buffered and registers for the rest, or ends  *)
(* the response at once when the job is already terminal.                  *)
(***************************************************************************)
OpenStream_AlwaysLive(c, fromSeq) ==
  /\ route[c] = "unused" /\ link = {}
  /\ Watched \in records
  /\ link' = {c}
  /\ wire' = [wire EXCEPT ![c] = Seqs(fromSeq, Len(events[Watched]))]
  /\ route' = [route EXCEPT ![c] = "live"]
  /\ UNCHANGED seen

OpenStream(c, fromSeq) ==
  /\ route[c] = "unused" /\ link = {}
  /\ Watched \in records
  /\ link' = {c}
  /\ wire' = [wire EXCEPT ![c] = Seqs(fromSeq, Len(events[Watched]))]
  /\ route' = [route EXCEPT ![c] =
                 IF status[Watched] \in Terminal THEN "ended" ELSE "live"]
  /\ UNCHANGED seen

Connect_RawHeader(c) == OpenStream(c, IF seen = <<>> THEN 0 ELSE Len(seen) - 1)
Connect(c) == OpenStream(c, Len(seen))

ReadEvent(c) ==
  /\ c \in link /\ wire[c] # <<>>
  /\ seen' = Append(seen, Head(wire[c]))
  /\ wire' = [wire EXCEPT ![c] = Tail(@)]
  /\ UNCHANGED <<route, link>>

(* The response was ended and all of it was read: the iterator is done.    *)
ReadEnd(c) ==
  /\ c \in link /\ wire[c] = <<>> /\ route[c] = "ended"
  /\ link' = link \ {c}
  /\ UNCHANGED <<route, wire, seen>>

(* The connection is lost with what is in flight, or the consumer leaves.  *)
LinkLost(c) ==
  /\ c \in link
  /\ link' = link \ {c}
  /\ wire' = [wire EXCEPT ![c] = <<>>]
  /\ UNCHANGED <<route, seen>>

(* The response's close event: the route unsubscribes. *)
RouteClosed(c) ==
  /\ c \notin link /\ route[c] = "live"
  /\ route' = [route EXCEPT ![c] = "ended"]
  /\ UNCHANGED <<link, wire, seen>>

StreamStep(c) ==
  Connect(c) \/ ReadEvent(c) \/ ReadEnd(c) \/ LinkLost(c) \/ RouteClosed(c)

StreamNext ==
  \/ Next /\ Deliver
  \/ (\E c \in Conns : StreamStep(c)) /\ UNCHANGED vars

StreamSpec == StreamInit /\ [][StreamNext]_<<vars, streamVars>>

(* A connected client reads on, and the server notices a lost connection.  *)
FairStreams ==
  \A c \in Conns : /\ WF_<<vars, streamVars>>(ReadEvent(c) /\ UNCHANGED vars)
                   /\ WF_<<vars, streamVars>>(ReadEnd(c) /\ UNCHANGED vars)
                   /\ WF_<<vars, streamVars>>(RouteClosed(c) /\ UNCHANGED vars)

(* What the shipped resolvers and executors promise: each settles, because *)
(* every child process and every fetch they wait for is bounded by a       *)
(* timeout; and a settled promise resumes its awaiters.                    *)
ResolveStep(j) == WorkspaceReady(j) \/ WorkspaceReadyTooLate(j) \/ WorkspaceFails(j)
ExecuteStep(j) == \E outcome \in Terminal : ExecutorReturns(j, outcome)
FairJobs ==
  \A j \in Jobs :
    /\ WF_<<vars, streamVars>>(ResolveStep(j) /\ Deliver)
    /\ WF_<<vars, streamVars>>(ExecuteStep(j) /\ Deliver)
    /\ WF_<<vars, streamVars>>(ReleaseSettles(j) /\ Deliver)
    /\ WF_<<vars, streamVars>>(RunJobEnds(j) /\ Deliver)

FairStreamSpec == StreamSpec /\ FairStreams /\ FairJobs

-----------------------------------------------------------------------------
(* Over all its connections the client reads every event once and in       *)
(* order: replay and live delivery meet without a gap or an overlap        *)
(* (job-manager.ts:443-457), and a resumed stream continues where the      *)
(* client stopped reading, not where the server stopped writing; and what  *)
(* it reads from is the log the RFC describes.                             *)
ReadsExactlyOnceInOrder ==
  /\ EventLogWellFormed
  /\ seen = Seqs(0, Len(seen))
  /\ Len(seen) <= Len(events[Watched])

(* Every accepted job ends and gives its slot back, if executors settle    *)
(* once they run or are aborted, and those that wait get it (pump:567,     *)
(* runJob:703-709).                                                        *)
EveryJobEnds == \A j \in Jobs : (j \in Minted) ~> (j \in Ended /\ j \notin running)

(* A client that is connected gets to the end of the stream: it never      *)
(* waits for ever on an open response.                                     *)
StreamEnds == \A c \in Conns : (c \in link) ~> (c \notin link)
=============================================================================
