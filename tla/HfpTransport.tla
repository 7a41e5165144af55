---------------------------- MODULE HfpTransport ----------------------------
(***************************************************************************)
(* One peer's HFP requests to one node: the pinned client (client.ts) and  *)
(* the gated server (server.ts, workspace/routes.ts, jobs/routes.ts), over *)
(* connections that time out or break between any two steps, while the     *)
(* node unpairs the peer (unpairPeer in daemon.ts).                        *)
(*                                                                         *)
(* A request is of one kind: "submit" stands for the JSON routes, "upload" *)
(* for the bundle upload of a workspace sync, "download" for artifacts and *)
(* tarballs, "events" for the job stream, "pair" for the route unpaired    *)
(* peers may use, "unknown" for a path no route has.                       *)
(***************************************************************************)
EXTENDS HfpWire, FiniteSets

CONSTANTS
  Requests,
  Streaming,    \* those of them that may carry more than JSON
  MaxBody,      \* byte cap of a body, either way
  Streams       \* event streams the server may send

ASSUME BodyAssumption == MaxBody \in Nat
ASSUME StreamsAssumption == Streams \subseteq Seq(Marks)

VARIABLES
  trust,        \* the server's view of the peer: "paired", "revoking", "unpaired"
  admitted,     \* requests past the gate when the peer was unpaired
  active,       \* work submitted for the peer and not canceled
  applied,      \* uploads applied to the cache
  req           \* the exchanges

transportVars == <<trust, admitted, active, applied, req>>

Kinds == {"submit", "upload", "download", "events", "pair", "unknown"}
Sizes == 0 .. (MaxBody + 1)
Open == {"pinned", "sent", "receiving", "cleaning"}

Fresh(k, server, size) ==
  [kind |-> k, server |-> server, size |-> size,   \* chosen by the environment
   at |-> "connect",      \* the client
   sock |-> "open", sent |-> FALSE,
   srv |-> "idle",        \* the server's handling of it
   gate |-> "none", got |-> 0, temp |-> FALSE,
   reply |-> 0, moved |-> 0, file |-> "none", cause |-> "none",
   sse |-> ParserStart, wire |-> <<>>]

Idle == Fresh("submit", "expected", 0)

TransportInit ==
  /\ trust = "paired"
  /\ admitted = {} /\ active = {} /\ applied = {}
  /\ req = [r \in Requests |-> [Idle EXCEPT !.at = "idle"]]

Change(r, q) == req' = [req EXCEPT ![r] = q]
Unchanged == UNCHANGED <<trust, admitted, active, applied>>

-----------------------------------------------------------------------------
(* The client.                                                             *)

Connect(r, k, server, size, wire) ==
  /\ req[r].at = "idle"
  /\ k \in {"submit", "pair"} \/ r \in Streaming
  /\ k = "events" \/ wire = <<>>
  /\ k \in {"upload", "download"} \/ size = 0
  /\ server = "expected" \/ (size = 0 /\ wire = <<>>)
  /\ Change(r, [Fresh(k, server, size) EXCEPT !.wire = wire])
  /\ Unchanged

(* connectPinned: the certificate is compared before a byte is sent; only  *)
(* a pairing may go without an expectation.                                *)
Pinned(r) ==
  /\ req[r].at = "connect" /\ req[r].sock = "open"
  /\ Change(r, IF req[r].server = "expected"
                    \/ (req[r].kind = "pair" /\ req[r].server = "impostor")
               THEN [req[r] EXCEPT !.at = "pinned"]
               ELSE [req[r] EXCEPT !.at = "settled", !.cause = "mismatch", !.sock = "closed"])
  /\ Unchanged

Send(r) ==
  /\ req[r].at = "pinned" /\ req[r].sock = "open"
  /\ Change(r, [req[r] EXCEPT !.at = "sent", !.sent = TRUE,
                  !.srv = IF req[r].server = "expected" THEN "arrived" ELSE @])
  /\ Unchanged

(* Every way out destroys the socket, and a failure of a socket the timer  *)
(* destroyed is raised as the timeout.                                     *)
Settled(q, cause) ==
  [q EXCEPT !.at = "settled", !.sock = "closed",
            !.cause = IF q.sock = "timedout" /\ cause # "ok" THEN "timeout" ELSE cause]

(* The response head: a refusal throws; a download opens its file first    *)
(* unless a header is unusable, and then streams.                          *)
HeadArrives(r) ==
  LET q == req[r] IN
  /\ q.at = "sent" /\ q.sock = "open" /\ q.reply # 0
  /\ \/ q.reply # 200 /\ Change(r, Settled(q, "refused"))
     \/ /\ q.reply = 200 /\ q.kind \in {"download", "events"}
        /\ Change(r, [q EXCEPT !.at = "receiving",
                               !.file = IF q.kind = "download" THEN "partial" ELSE @])
     \/ /\ q.reply = 200 /\ q.kind = "download"
        /\ Change(r, Settled(q, "bad_header"))
     \/ q.reply = 200 /\ q.kind \notin {"download", "events"} /\ Change(r, Settled(q, "ok"))
  /\ Unchanged

(* downloadToFile: more than the cap, or a failure, leaves through the     *)
(* removal of the file.                                                    *)
ChunkArrives(r) ==
  LET q == req[r] IN
  /\ q.at = "receiving" /\ q.kind = "download" /\ q.sock = "open" /\ q.moved < q.size
  /\ Change(r, IF q.moved + 1 > MaxBody
               THEN [q EXCEPT !.moved = @ + 1, !.at = "cleaning", !.cause = "too_large"]
               ELSE [q EXCEPT !.moved = @ + 1])
  /\ Unchanged

BodyEnds_AnyEnd(r) ==
  LET q == req[r] IN
  /\ q.at = "receiving" /\ q.kind = "download"
  /\ q.moved = q.size \/ q.sock # "open"
  /\ Change(r, Settled([q EXCEPT !.file = IF q.moved = q.size THEN "whole" ELSE @], "ok"))
  /\ Unchanged

BodyEnds(r) ==
  LET q == req[r] IN
  /\ q.at = "receiving" /\ q.kind = "download" /\ q.moved = q.size
  /\ Change(r, Settled([q EXCEPT !.file = "whole"], "ok"))
  /\ Unchanged

FileRemoved(r) ==
  LET q == req[r] IN
  /\ q.at = "cleaning"
  /\ Change(r, Settled([q EXCEPT !.file = "none"], q.cause))
  /\ Unchanged

(* streamJobEvents: any cut of the stream; the iterator ends with the      *)
(* result or with the body, or throws at a cap or at a malformed record.   *)
EventsArrive(r, n) ==
  LET q == req[r]
      p == ParseChunk(q.sse, SubSeq(q.wire, q.moved + 1, q.moved + n)) IN
  /\ q.at = "receiving" /\ q.kind = "events" /\ q.sock = "open"
  /\ q.moved + n <= Len(q.wire)
  /\ LET s == [q EXCEPT !.sse = p, !.moved = @ + n]
     IN Change(r, IF p.state = "reading" THEN s
                  ELSE Settled(s, IF p.state = "done" THEN "ok" ELSE p.state))
  /\ Unchanged

EventsEnd(r) ==
  LET q == req[r] IN
  /\ q.at = "receiving" /\ q.kind = "events" /\ q.sock = "open" /\ q.moved = Len(q.wire)
  /\ Change(r, Settled(q, "ok"))
  /\ Unchanged

SocketDies_TimerDropped(r, how) ==
  /\ req[r].at \notin {"idle", "settled"} /\ req[r].sock = "open"
  /\ how = "timedout" => req[r].at \in {"connect", "pinned"}
  /\ Change(r, [req[r] EXCEPT !.sock = how])
  /\ Unchanged

(* The inactivity timer destroys the socket; or the peer or the network    *)
(* does.  The failure surfaces where the client waits.                     *)
SocketDies(r, how) ==
  /\ req[r].at \notin {"idle", "settled"} /\ req[r].sock = "open"
  /\ Change(r, [req[r] EXCEPT !.sock = how])
  /\ Unchanged

FailureSurfaces(r) ==
  LET q == req[r] IN
  /\ q.sock \in {"timedout", "reset"}
  /\ q.at \in {"connect", "pinned", "sent", "receiving"}
  /\ Change(r, IF q.file = "none" THEN Settled(q, "broken")
               ELSE [q EXCEPT !.at = "cleaning", !.cause = "broken"])
  /\ Unchanged

-----------------------------------------------------------------------------
(* The server.                                                             *)

Replies(q, status) == [q EXCEPT !.reply = status, !.srv = "answered"]

(* handleRequest: the peer is looked up once, as the request arrives.      *)
(* An unpaired peer gets the same answer from a path that exists and one   *)
(* that does not.                                                          *)
Arrives(r) ==
  LET q == [req[r] EXCEPT !.gate = IF trust = "paired" THEN "paired" ELSE "unpaired"] IN
  /\ q.srv = "arrived"
  /\ Change(r, CASE q.kind # "pair" /\ trust # "paired" -> Replies(q, 401)
                 [] q.kind = "unknown" /\ trust = "paired" -> Replies(q, 404)
                 [] q.kind \in {"download", "events"} /\ trust = "paired" -> [q EXCEPT !.srv = "handler"]
                 [] OTHER -> [q EXCEPT !.srv = "body", !.temp = (q.kind = "upload")])
  /\ Unchanged

(* handleBundleUpload: bad headers, or a repo that is not allowed, are      *)
(* refused before anything is written.                                     *)
UploadRefused(r) ==
  LET q == [req[r] EXCEPT !.gate = "paired"] IN
  /\ q.srv = "arrived" /\ q.kind = "upload" /\ trust = "paired"
  /\ Change(r, Replies(q, 400))
  /\ Unchanged

(* readJsonBody, and streamToFileCapped into a temporary directory.        *)
BodyArrives(r) ==
  LET q == req[r] IN
  /\ q.srv = "body" /\ q.sock = "open" /\ q.got < q.size
  /\ Change(r, IF q.got + 1 > MaxBody
               THEN Replies([q EXCEPT !.got = @ + 1, !.temp = FALSE], 413)
               ELSE [q EXCEPT !.got = @ + 1])
  /\ Unchanged

BodyComplete(r) ==
  LET q == req[r] IN
  /\ q.srv = "body" /\ q.got = q.size
  /\ Change(r, [q EXCEPT !.srv = "handler"]) \/ Change(r, Replies([q EXCEPT !.temp = FALSE], 400))
  /\ Unchanged

BodyBreaks(r) ==
  LET q == req[r] IN
  /\ q.srv = "body" /\ q.sock # "open" /\ q.got < q.size
  /\ Change(r, Replies([q EXCEPT !.temp = FALSE], 400))
  /\ Unchanged

(* The handler accepts or refuses; it runs on, although the client may be  *)
(* gone.                                                                   *)
Handler(r) ==
  LET q == req[r] IN
  /\ q.srv = "handler"
  /\ \/ /\ Change(r, Replies([q EXCEPT !.temp = FALSE], 200))
        /\ active' = active \cup (IF q.kind = "submit" THEN {r} ELSE {})
        /\ applied' = applied \cup (IF q.kind = "upload" THEN {r} ELSE {})
     \/ /\ Change(r, Replies([q EXCEPT !.temp = FALSE], 400))
        /\ UNCHANGED <<active, applied>>
  /\ UNCHANGED <<trust, admitted>>

(* unpairPeer: out of the trust store in memory at once, on disk or not;   *)
(* after the await, every job of the peer is canceled.                     *)
Revoke ==
  /\ trust = "paired" /\ trust' = "revoking"
  /\ admitted' = {r \in Requests : req[r].srv \in {"body", "handler"}}
  /\ UNCHANGED <<active, applied, req>>

CancelOwned_IfSaved ==
  /\ trust = "revoking" /\ trust' = "unpaired"
  /\ active' \in {{}, active}
  /\ UNCHANGED <<admitted, applied, req>>

CancelOwned ==
  /\ trust = "revoking" /\ trust' = "unpaired"
  /\ active' = {}
  /\ UNCHANGED <<admitted, applied, req>>

-----------------------------------------------------------------------------
Reacts(r) ==
  \/ Pinned(r) \/ Send(r) \/ HeadArrives(r) \/ BodyEnds(r)
  \/ FileRemoved(r) \/ EventsEnd(r) \/ FailureSurfaces(r)

ClientStep(r) ==
  \/ Reacts(r) \/ ChunkArrives(r)
  \/ \E n \in 1 .. MaxTotal : EventsArrive(r, n)

ServerStep(r) ==
  \/ Arrives(r) \/ UploadRefused(r) \/ BodyArrives(r) \/ BodyComplete(r)
  \/ BodyBreaks(r) \/ Handler(r)

TransportNext ==
  \/ \E r \in Requests :
       \/ \E k \in Kinds, s \in {"expected", "impostor", "nocert"}, n \in Sizes,
             w \in Streams \cup {<<>>} : Connect(r, k, s, n, w)
       \/ ClientStep(r) \/ ServerStep(r)
       \/ \E how \in {"timedout", "reset"} : SocketDies(r, how)
  \/ Revoke \/ CancelOwned

(* The timer is armed for the socket's whole life, and the client's event  *)
(* loop runs; no more of a body or of a stream need ever come.             *)
TransportSpec == TransportInit /\ [][TransportNext]_transportVars
        /\ \A r \in Requests : /\ WF_transportVars(Reacts(r))
                               /\ WF_transportVars(SocketDies(r, "timedout"))

-----------------------------------------------------------------------------
(* After an unpair the peer's work is at most that of the requests already *)
(* past the gate, the bound unpairPeer documents: the check precedes the   *)
(* await of the body, and the cancellation does not see what comes after.  *)
OnlyAdmittedWorkRemains == trust = "unpaired" => active \subseteq admitted

(* No byte of a request is sent to a peer other than the expected one, nor *)
(* by anything but a pairing to one without an expectation; no answer      *)
(* tells an unpaired peer whether a path exists (connectPinned and the     *)
(* defence in depth of handleRequest); and what an unpair leaves running   *)
(* is bounded by what was admitted before it.                              *)
PeersAsTrusted ==
  /\ OnlyAdmittedWorkRemains
  /\ \A r \in Requests :
       /\ req[r].sent => \/ req[r].server = "expected"
                         \/ req[r].kind = "pair" /\ req[r].server = "impostor"
       /\ req[r].gate = "unpaired" /\ req[r].kind # "pair" => req[r].reply \in {0, 401}

(* A download that is reported whole is, and within the cap; one that      *)
(* fails leaves no file behind, whichever way it fails.  A bundle is       *)
(* applied only if all of it arrived, within the cap, and its temporary    *)
(* file goes with the request (downloadToFile, handleBundleUpload).        *)
BodiesAreWhole ==
  /\ \A r \in Requests :
       LET q == req[r] IN
       /\ q.kind = "download" /\ q.at = "settled" =>
            /\ q.file = IF q.cause = "ok" THEN "whole" ELSE "none"
            /\ q.cause = "ok" => q.moved = q.size /\ q.size <= MaxBody
       /\ q.srv = "answered" => ~q.temp
  /\ \A r \in applied : req[r].got = req[r].size /\ req[r].size <= MaxBody

(* However the stream is cut, in a line end or in a record, the events     *)
(* yielded are those of the text received so far; the stream is given up   *)
(* at the first malformed record, and as a failure, and ends with the      *)
(* first result: neither a cut nor anything but these and a cap may stop   *)
(* it short or let it go on (parseSseEvents).                              *)
EventsAsSent ==
  \A r \in Requests :
    LET q == req[r]
        text == SubSeq(q.wire, 1, q.moved)
    IN  q.kind = "events" /\ q.sse.state # "too_large" =>
          /\ q.sse.events = RecordsOf(text) /\ q.sse.state = FateOf(text)
          /\ q.sse.state = "malformed" => q.cause # "ok"

(* Every request ends: no wait of the client is without a timer (the       *)
(* streams here are finite; heartbeats keep one open as long as its job).  *)
RequestsEnd ==
  \A r \in Requests : req[r].at \notin {"idle", "settled"} ~> req[r].at = "settled"
=============================================================================
