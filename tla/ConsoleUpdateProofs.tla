------------------------- MODULE ConsoleUpdateProofs -------------------------
(***************************************************************************)
(* The console never keeps an image it has not checked in that image's own *)
(* boot, for every set of versions and every bound on resets, updates and  *)
(* messages in flight.                                                     *)
(*                                                                         *)
(* Three things make this true.  The page's flows share one queue, in      *)
(* which each waits at most once (Queued); the checks run alone            *)
(* (ConfirmAlone), which takes the order of the first read after a connect *)
(* and an update's first request (ConnFirst), and that an image which is   *)
(* not on trial is not put on trial before the link goes (Settled); and    *)
(* every answer on the wire, every check that has passed and every         *)
(* MARK_VALID on its way are of this boot (Vetted).                        *)
(*                                                                         *)
(* What it says is true as well: an update is confirmed only of an image   *)
(* that the device keeps.  A FW_INFO that can still be read tells of       *)
(* something that has not changed since (Told), and an update's requests   *)
(* leave only while the image it was planned from runs (Agreed).  And a    *)
(* flash is called not installed or rolled back only when the device is    *)
(* not set to start it, as long as one message at most is late: then each  *)
(* answer main gets in an update is its own (MatchInv), and a complete new *)
(* image is the one that answer is about (UploadInv).                      *)
(***************************************************************************)
EXTENDS ConsoleUpdate, TLAPS

\* The awaits of each function.
StepsOf == [main |-> {"idle", "plan", "ask", "begin", "data", "finish", "revert", "abort",
                      "probe", "release", "restart", "drop_wait", "reread"},
            conn |-> {"idle", "discover", "info"},
            report |-> {"idle", "sleep", "retry"},
            confirm |-> {"idle", "firmware", "protocol", "sensor", "sensor_again", "mark", "verify"},
            hand |-> {"idle", "hand", "hand_info"}]
OwnSteps == \A f \in Flows : pc[f] \in StepsOf[f]

\* The replies of the device, as one set.
Replies == [type : {"FW_INFO"}, data : Infos] \cup [type : {"DIAGNOSTICS"}, data : Sensor]
             \cup [type : {"OK", "ERROR", "STATE"}, data : {NoData}]

DeviceTypes ==
  /\ FlashTypeOK
  /\ version \in [Slots -> Versions]
  /\ session \in BOOLEAN /\ up \in BOOLEAN /\ rebooting \in BOOLEAN
  /\ requests \in Seq(Requests)
  /\ replies \in Seq(Replies)
  /\ resets \in 0..MaxResets /\ updates \in 0..MaxUpdates
  /\ vetted \subseteq Checks
  /\ origin \in [Slots -> 0..MaxUpdates]
PageTypes ==
  /\ link \in {"none", "open", "dead"}
  /\ waiting \in Seq(Flows)
  /\ txn \in [by : Flows \cup {"none"}, left : 0..1]
  /\ pc \in [Flows -> Steps]
  /\ again \in 0..3
  /\ phase \in Phases /\ job \in Jobs /\ said \in Verdicts
  /\ seeking \in BOOLEAN

\* A flow that waits for its turn, or for its reply, is at a request; it waits
\* once, and not for both.
Queued ==
  /\ \A i \in 1..Len(waiting) : pc[waiting[i]] \in Asking /\ waiting[i] # txn.by
  /\ \A i, j \in 1..Len(waiting) : waiting[i] = waiting[j] => i = j
  /\ txn.by # "none" => pc[txn.by] \in Asking
  /\ txn.by = "none" => txn.left = 0

\* Without a transport nothing waits for a turn, and neither the confirm panel nor
\* Restart now is shown; autoReconnect() runs only then.
Linked ==
  /\ link = "none" => /\ waiting = <<>> /\ txn = NoTxn
                      /\ phase # "switched_no_restart" /\ pc.main # "ask"
  /\ link # "none" => ~seeking

\* Where an update stands when its function is between the plan and the verdict.
Uploading == {"begin", "data", "finish", "revert", "probe", "release"}
MainPhase ==
  /\ pc.main \in {"plan", "ask"} => phase = "none"
  /\ pc.main \in Uploading => phase = "running"

\* What came back is being read: no update has begun, and no check.
ReportPhase == pc.report # "idle" => phase \in {"rebooting", "switched_no_restart"}
Sleeps == pc.report = "sleep" => again > 0

\* While the checks run nothing else decides about the update; a reconnect that
\* would start them again first sees them fail with the link.
ConfirmAlone ==
  pc.confirm # "idle" =>
    /\ pc.report = "idle"
    /\ pc.main \notin Uploading \cup {"plan", "ask", "restart"}
    /\ phase = "rebooting" => link = "none"

\* The first read after a connect is asked, and answered, before an update's
\* first request is.
ConnFirst ==
  /\ pc.conn = "info" /\ link # "none" =>
       txn.by = "conn" \/ \E i \in 1..Len(waiting) : waiting[i] = "conn"
  /\ pc.main \in Uploading => pc.conn # "discover"
  /\ pc.main \in {"data", "finish", "probe", "release"} => pc.conn = "idle"
  /\ txn.by = "main" /\ pc.main \in Uploading => pc.conn = "idle"
  /\ pc.main \in Uploading =>
       \A i, j \in 1..Len(waiting) : waiting[i] = "main" /\ waiting[j] = "conn" => j < i

\* An image runs that is not on trial, and nothing on the link says otherwise;
\* it stays so until the link goes.
NotOnTrial ==
  /\ link = "open" => ~PendingVerify
  /\ \A i \in 1..Len(replies) : replies[i].type = "FW_INFO" => ~replies[i].data.pending

\* Restart now is offered, or asked for, when nothing is left to read or when what
\* there is to read cannot start the checks.
Settled ==
  (phase = "switched_no_restart" \/ pc.main = "restart") /\ link # "none" =>
     (pc.conn = "idle" /\ pc.report = "idle") \/ NotOnTrial

\* A check that has passed was passed by the image on trial, in this boot.
OnTrial == link = "open" /\ PendingVerify
Passed ==
  OnTrial =>
    /\ pc.confirm \in {"protocol", "sensor", "sensor_again", "mark", "verify"} => "firmware" \in vetted
    /\ pc.confirm \in {"sensor", "sensor_again", "mark", "verify"} => "protocol" \in vetted
    /\ pc.confirm \in {"sensor_again", "mark", "verify"} => "sensor" \in vetted

PageInv ==
  /\ PageTypes /\ OwnSteps /\ Queued /\ Linked /\ ConnFirst
  /\ MainPhase /\ ReportPhase /\ Sleeps /\ ConfirmAlone /\ Settled /\ Passed

\* What is on the wire is of this boot: FW_INFO tells of an image on trial only
\* before it tells of one that is not, and each answer to a check is one the device
\* has kept (vetted).
InfoOrder ==
  \A i \in 1..Len(replies) : replies[i].type = "FW_INFO" /\ ~replies[i].data.pending =>
    /\ link = "open" => ~PendingVerify
    /\ \A j \in 1..Len(replies) :
         j > i /\ replies[j].type = "FW_INFO" => ~replies[j].data.pending
Vetted ==
  OnTrial =>
    /\ \A i \in 1..Len(replies) :
         /\ replies[i].type = "FW_INFO" => "firmware" \in vetted
         /\ replies[i].type = "STATE" => "protocol" \in vetted
         /\ replies[i].type = "DIAGNOSTICS" /\ replies[i].data = "healthy" => "sensor" \in vetted
    /\ \A i \in 1..Len(requests) : requests[i] = "MARK_VALID" => vetted = Checks
WireInv ==
  /\ DeviceTypes
  /\ link # "open" => requests = <<>>
  /\ link = "none" => replies = <<>>
  /\ ~up => link # "open"
  /\ InfoOrder /\ Vetted

ConsoleInv == PageInv /\ WireInv

-----------------------------------------------------------------------------
LEMMA AskingIs ==
  /\ Asking = {"plan", "begin", "data", "finish", "revert", "abort", "probe", "release",
               "restart", "reread", "hand", "hand_info", "info", "retry", "firmware",
               "protocol", "sensor", "sensor_again", "mark", "verify"}
  /\ \A s \in Asking : Asks[s] \in Requests
BY DEF Asking, Asks, Requests

LEMMA Appended ==
  ASSUME NEW X, NEW q \in Seq(X), NEW x \in X
  PROVE  /\ Append(q, x) \in Seq(X)
         /\ Len(Append(q, x)) = Len(q) + 1
         /\ \A i \in 1..Len(q) : Append(q, x)[i] = q[i]
         /\ Append(q, x)[Len(q) + 1] = x
         /\ Len(q) \in Nat
OBVIOUS

LEMMA Tailed ==
  ASSUME NEW X, NEW q \in Seq(X), q # <<>>
  PROVE  /\ Tail(q) \in Seq(X)
         /\ Len(q) \in Nat \ {0} /\ Len(Tail(q)) = Len(q) - 1
         /\ \A i \in 1..Len(Tail(q)) : Tail(q)[i] = q[i + 1]
         /\ Head(q) = q[1] /\ Head(q) \in X
OBVIOUS

\* A flow that does not wait goes on to another step (transact() joins the queue).
Free(f) == \A i \in 1..Len(waiting) : waiting[i] # f

LEMMA GoesQueued ==
  ASSUME PageTypes, Queued, NEW f \in Flows, NEW step \in Steps, Goes(f, step), Free(f),
         txn' = NoTxn \/ (txn' = txn /\ txn.by # f)
  PROVE  /\ Queued'
         /\ waiting' \in Seq(Flows) /\ pc' \in [Flows -> Steps]
         /\ txn' \in [by : Flows \cup {"none"}, left : 0..1]
         /\ \A i \in 1..Len(waiting) : i \in 1..Len(waiting') /\ waiting'[i] = waiting[i]
         /\ \A i \in 1..Len(waiting') :
              i \in 1..Len(waiting) \/ (waiting'[i] = f /\ i > Len(waiting))
         /\ step \in Asking => \E i \in 1..Len(waiting') : waiting'[i] = f
         /\ step \notin Asking => waiting' = waiting
<1>1. pc' \in [Flows -> Steps] /\ pc' = [pc EXCEPT ![f] = step]
  BY DEF Goes, PageTypes
<1>2. txn' \in [by : Flows \cup {"none"}, left : 0..1] /\ txn'.by # f
      /\ (txn'.by # "none" => txn'.by = txn.by /\ pc'[txn'.by] \in Asking)
      /\ (txn'.by = "none" => txn'.left = 0)
      /\ (\A g \in Flows : g # txn.by => g # txn'.by)
  BY <1>1 DEF PageTypes, Queued, NoTxn, Flows
<1>3. CASE step \in Asking
  <2>1. waiting' = Append(waiting, f)
    BY <1>3 DEF Goes
  <2>2. /\ waiting' \in Seq(Flows) /\ Len(waiting') = Len(waiting) + 1
        /\ Len(waiting) \in Nat
        /\ \A i \in 1..Len(waiting) : waiting'[i] = waiting[i] /\ waiting[i] \in Flows
        /\ waiting'[Len(waiting) + 1] = f
    BY <2>1, Appended DEF PageTypes
  <2>3. pc'[f] \in Asking /\ \A i \in 1..Len(waiting) : pc'[waiting[i]] \in Asking
    BY <1>1, <1>3, <2>2 DEF Queued, Free, PageTypes
  <2>4. \A i \in 1..Len(waiting') : i \in 1..Len(waiting) \/ i = Len(waiting) + 1
    BY <2>2
  <2>5. \A i \in 1..Len(waiting') : pc'[waiting'[i]] \in Asking /\ waiting'[i] # txn'.by
    BY <1>2, <2>2, <2>3, <2>4 DEF Queued
  <2>6. \A i, j \in 1..Len(waiting') : waiting'[i] = waiting'[j] => i = j
    BY <2>2, <2>4 DEF Queued, Free
  <2>7. /\ \A i \in 1..Len(waiting) : i \in 1..Len(waiting') /\ waiting'[i] = waiting[i]
        /\ \A i \in 1..Len(waiting') :
             i \in 1..Len(waiting) \/ (waiting'[i] = f /\ i > Len(waiting))
        /\ \E i \in 1..Len(waiting') : waiting'[i] = f
    BY <2>2, <2>4
  <2> QED
    BY <1>1, <1>2, <2>2, <2>5, <2>6, <2>7, <1>3 DEF Queued
<1>4. CASE step \notin Asking
  <2>1. waiting' = waiting
    BY <1>4 DEF Goes
  <2>2. \A i \in 1..Len(waiting) : waiting[i] \in Flows
    BY DEF PageTypes
  <2> QED
    BY <1>1, <1>2, <1>4, <2>1, <2>2 DEF Queued, PageTypes, Free
<1> QED
  BY <1>3, <1>4

\* A step that leaves the device's side of the page's invariant alone.
Stable ==
  /\ link' = link /\ vetted' = vetted
  /\ NotOnTrial => NotOnTrial'
  /\ OnTrial' => OnTrial

\* One flow goes on; the conjuncts about phases are left to the caller.
LEMMA GoesKeeps ==
  ASSUME PageInv, Stable, NEW f \in Flows, NEW step \in StepsOf[f], Goes(f, step), Free(f),
         (txn' = NoTxn /\ (txn.by = f \/ link = "none")) \/ (txn' = txn /\ txn.by # f),
         again' \in 0..3, phase' \in Phases, job' \in Jobs, said' \in Verdicts,
         seeking' = seeking \/ (link = "none" /\ seeking' \in BOOLEAN),
         link = "none" => step \notin Asking \cup {"ask"} /\ phase' # "switched_no_restart",
         f = "main" /\ step \in Uploading =>
            \/ txn.by = "main" /\ pc.main \in Uploading
            \/ pc.conn # "discover" /\ step \in {"begin", "revert"},
         f = "conn" => step # "discover" /\ (step = "info" => pc.conn = "discover"),
         MainPhase', ReportPhase', Sleeps', ConfirmAlone', Settled', Passed'
  PROVE  PageInv'
<1>1. step \in Steps /\ \A g \in Flows : pc[g] \in StepsOf[g]
  BY DEF StepsOf, Flows, Steps, Asking, Asks, PageInv, OwnSteps
<1>2. /\ Queued' /\ waiting' \in Seq(Flows) /\ pc' \in [Flows -> Steps]
      /\ txn' \in [by : Flows \cup {"none"}, left : 0..1]
      /\ \A i \in 1..Len(waiting) : i \in 1..Len(waiting') /\ waiting'[i] = waiting[i]
      /\ \A i \in 1..Len(waiting') :
           i \in 1..Len(waiting) \/ (waiting'[i] = f /\ i > Len(waiting))
      /\ step \in Asking => \E i \in 1..Len(waiting') : waiting'[i] = f
      /\ step \notin Asking => waiting' = waiting
  BY <1>1, GoesQueued DEF PageInv
<1>3. pc' = [pc EXCEPT ![f] = step] /\ pc \in [Flows -> Steps]
  BY DEF Goes, PageInv, PageTypes
<1>4. PageTypes'
  BY <1>2 DEF PageTypes, PageInv, Stable
<1>5. OwnSteps'
  BY <1>1, <1>3 DEF OwnSteps
<1>6. Linked'
  <2>1. link = "none" => pc'.main # "ask"
    BY <1>3 DEF Linked, PageInv, Flows
  <2> QED
    BY <1>2, <2>1 DEF Linked, PageInv, Stable, NoTxn
<1>7. ConnFirst'
  <2>1. pc.conn = "idle" => \A i \in 1..Len(waiting) : waiting[i] # "conn"
    BY AskingIs DEF PageInv, Queued
  <2>2. CASE f = "main"
    <3>1. pc'.main = step /\ pc'.conn = pc.conn
      BY <1>3, <2>2 DEF Flows
    <3>2. CASE step \in Uploading
      <4>1. CASE txn.by = "main" /\ pc.main \in Uploading
        <5>1. pc.conn = "idle"
          BY <4>1 DEF ConnFirst, PageInv
        <5>2. \A i \in 1..Len(waiting') : waiting'[i] # "conn"
          BY <1>2, <2>1, <2>2, <5>1
        <5> QED
          BY <3>1, <3>2, <5>1, <5>2 DEF ConnFirst
      <4>2. CASE pc.conn # "discover" /\ step \in {"begin", "revert"}
        <5>1. txn'.by # "main"
          BY <2>2 DEF NoTxn
        <5>2. \A i, j \in 1..Len(waiting') : waiting'[i] = "main" /\ waiting'[j] = "conn" => j < i
          <6>1. \A i \in 1..Len(waiting') : waiting'[i] = "main" => i > Len(waiting)
            BY <1>2, <2>2 DEF Free
          <6>2. \A j \in 1..Len(waiting') : waiting'[j] = "conn" => j \in 1..Len(waiting)
            BY <1>2, <2>2
          <6>3. Len(waiting) \in Nat
            BY DEF PageInv, PageTypes
          <6> QED
            BY <6>1, <6>2, <6>3
        <5>3. pc'.conn = "info" /\ link' # "none" =>
                 txn'.by = "conn" \/ \E i \in 1..Len(waiting') : waiting'[i] = "conn"
          BY <1>2, <2>2, <3>1 DEF ConnFirst, PageInv, Stable, NoTxn
        <5> QED
          BY <3>1, <4>2, <5>1, <5>2, <5>3 DEF ConnFirst, Uploading
      <4> QED
        BY <2>2, <3>2, <4>1, <4>2
    <3>3. CASE step \notin Uploading
      BY <1>2, <2>2, <3>1, <3>3 DEF ConnFirst, PageInv, Stable, Uploading, NoTxn, Linked
    <3> QED
      BY <3>2, <3>3
  <2>3. CASE f = "conn"
    <3>1. pc'.main = pc.main /\ pc'.conn = step /\ step \in {"idle", "info"}
      BY <1>3, <2>3 DEF Flows, StepsOf
    <3>2. CASE step = "idle"
      BY <1>2, <2>3, <3>1, <3>2, AskingIs DEF ConnFirst, PageInv, Stable, Uploading, NoTxn, Linked
    <3>3. CASE step = "info"
      BY <1>2, <2>3, <3>1, <3>3, AskingIs DEF ConnFirst, PageInv, Stable, Uploading, NoTxn, Linked
    <3> QED
      BY <3>1, <3>2, <3>3
  <2>4. CASE f \notin {"main", "conn"}
    <3>1. pc'.main = pc.main /\ pc'.conn = pc.conn
      BY <1>3, <2>4 DEF Flows
    <3> QED
      BY <1>2, <2>4, <3>1 DEF ConnFirst, PageInv, Stable, Uploading, NoTxn, Linked
  <2> QED
    BY <2>2, <2>3, <2>4
<1> QED
  BY <1>2, <1>4, <1>5, <1>6, <1>7 DEF PageInv

-----------------------------------------------------------------------------
\* What a reply of this type tells, in the boot that the link belongs to.
Tells(type, data) ==
  /\ type = "FW_INFO" =>
       /\ data \in Infos
       /\ NotOnTrial => ~data.pending
       /\ ~data.pending => NotOnTrial'
       /\ OnTrial => "firmware" \in vetted
  /\ type = "STATE" => (OnTrial => "protocol" \in vetted)
  /\ type = "DIAGNOSTICS" =>
       data \in Sensor /\ (OnTrial /\ data = "healthy" => "sensor" \in vetted)

\* The await of a flow ends: with the reply it expects, or without one.
Resumed(f, how, data) ==
  /\ Stable
  /\ pc[f] \in Asking /\ Free(f) /\ txn' = NoTxn /\ (txn.by = f \/ link = "none")
  /\ how \in {"ok", "failed", "timeout", "lost"}
  /\ how = "lost" <=> link = "none"
  /\ how = "ok" => Tells(Expected(Asks[pc[f]]), data)

LEMMA ExpectedIs ==
  /\ \A s \in {"plan", "probe", "reread", "hand_info", "info", "retry", "firmware", "verify"} :
       Expected(Asks[s]) = "FW_INFO"
  /\ Expected(Asks["protocol"]) = "STATE"
  /\ \A s \in {"sensor", "sensor_again"} : Expected(Asks[s]) = "DIAGNOSTICS"
<1>1. /\ \A s \in {"plan", "probe", "reread", "hand_info", "info", "retry", "firmware", "verify"} :
           Asks[s] = "GET_FW_INFO"
      /\ Asks["protocol"] = "GET_STATE"
      /\ \A s \in {"sensor", "sensor_again"} : Asks[s] = "GET_DIAGNOSTICS"
  BY DEF Asks
<1>2. /\ Expected("GET_FW_INFO") = "FW_INFO" /\ Expected("GET_STATE") = "STATE"
      /\ Expected("GET_DIAGNOSTICS") = "DIAGNOSTICS"
  BY DEF Expected
<1> QED
  BY <1>1, <1>2

\* The update's own function goes on, or ends.
LEMMA MainGoes ==
  ASSUME PageInv, NEW how, NEW data, Resumed("main", how, data),
         NEW step \in {"idle", "ask", "drop_wait", "abort"} \cup Uploading, Goes("main", step),
         again' = again, seeking' = seeking, phase' \in Phases, job' \in Jobs, said' \in Verdicts,
         link = "none" => step \notin Asking \cup {"ask"} /\ phase' # "switched_no_restart",
         step = "ask" => pc.main = "plan",
         step \in Uploading => pc.main \in Uploading,
         step \in Uploading \cup {"ask"} => phase' = phase,
         \/ phase' = phase
         \/ pc.main \in Uploading /\ phase' \in {"done", "rebooting"}
         \/ pc.main = "restart" /\ phase' = "rebooting"
         \/ pc.main \in {"probe", "restart"} /\ phase' = "switched_no_restart"
  PROVE  PageInv'
<1>1. pc' = [pc EXCEPT !.main = step] /\ pc \in [Flows -> Steps] /\ again \in 0..3
  BY DEF Goes, PageInv, PageTypes
<1>2. /\ pc'.main = step /\ pc'.conn = pc.conn /\ pc'.report = pc.report
      /\ pc'.confirm = pc.confirm
  BY <1>1 DEF Flows
<1>3. pc.main \in Uploading \cup {"plan", "restart"} => pc.confirm = "idle"
  BY DEF PageInv, ConfirmAlone
<1>4. pc.main \in Uploading => pc.report = "idle"
  BY DEF PageInv, MainPhase, ReportPhase
<1>5. MainPhase' /\ ReportPhase' /\ Sleeps'
  BY <1>2, <1>4 DEF PageInv, MainPhase, ReportPhase, Sleeps, Uploading
<1>6. ConfirmAlone'
  BY <1>2, <1>3 DEF PageInv, ConfirmAlone, Resumed, Stable, Uploading
<1>7. Settled'
  <2>1. pc.main = "probe" => pc.conn = "idle" /\ pc.report = "idle"
    BY <1>4 DEF PageInv, ConnFirst, Uploading
  <2> QED
    BY <1>2, <2>1 DEF PageInv, Settled, Resumed, Stable, Uploading
<1>8. Passed'
  BY <1>2 DEF PageInv, Passed, Resumed, Stable
<1>9. step \in StepsOf.main /\ StepsOf.main = StepsOf["main"] /\ "main" \in Flows
  BY DEF StepsOf, Uploading, Flows
<1>10. step \in Uploading => txn.by = "main" /\ pc.main \in Uploading
  BY AskingIs DEF Resumed, Uploading
<1> QED
  BY <1>1, <1>5, <1>6, <1>7, <1>8, <1>9, <1>10, GoesKeeps DEF Resumed

LEMMA MainResumes ==
  ASSUME PageInv, NEW how, NEW data, Resumed("main", how, data),
         \/ Plans(how, data)
         \/ Writes(how)
         \/ Switches(how)
         \/ Probes(how, data)
         \/ Releases
         \/ Restarted(how)
  PROVE  PageInv'
<1>1. /\ again \in 0..3 /\ phase \in Phases /\ job \in Jobs /\ said \in Verdicts
      /\ pc.main \in Uploading => phase = "running"
      /\ link = "none" => phase # "switched_no_restart"
      /\ how = "lost" <=> ~Here
      /\ how \in {"ok", "failed", "timeout", "lost"}
  BY DEF PageInv, PageTypes, MainPhase, Linked, Resumed, Here
<1>2. CASE Plans(how, data)
  <2>1. PICK step \in {"ask", "idle"} :
          /\ Goes("main", step) /\ pc.main = "plan" /\ UNCHANGED <<again, phase, said, seeking>>
          /\ step = "ask" => how = "ok"
          /\ job' \in Jobs
    <3>1. CASE how = "ok" /\ Usable(data)
      <4>1. data \in Infos
        BY <1>2, <3>1, ExpectedIs DEF Plans, Resumed, Tells
      <4>2. PICK v \in IF job.kind = "flash" THEN Versions ELSE {data.prev} :
               job' = [job EXCEPT !.version = v, !.before = data.version,
                                  !.slot = Other(data.running), !.trial = data.pending]
        BY <1>2, <3>1 DEF Plans
      <4>3. v \in Versions
        BY <3>1, <4>1, <4>2 DEF Usable, Infos
      <4>4. Other(data.running) \in Slots /\ data.version \in Versions /\ data.pending \in BOOLEAN
        BY <4>1 DEF Infos, Slots, Other
      <4>5. job' \in Jobs
        BY <1>1, <4>2, <4>3, <4>4 DEF Jobs
      <4> QED
        BY <1>2, <3>1, <4>5 DEF Plans
    <3>2. CASE ~(how = "ok" /\ Usable(data))
      BY <1>1, <1>2, <3>2 DEF Plans
    <3> QED
      BY <3>1, <3>2
  <2> QED
    BY <1>1, <2>1, MainGoes, AskingIs DEF Uploading, Here
<1>3. CASE Writes(how)
  <2>1. CASE how = "ok"
    <3>1. PICK step \in {"data", "finish"} :
            Goes("main", step) /\ UNCHANGED <<again, updVars, seeking>>
      BY <1>3, <2>1 DEF Writes
    <3> QED
      BY <1>1, <1>3, <2>1, <3>1, MainGoes DEF Writes, Uploading, updVars, Here
  <2>2. CASE how # "ok"
    <3>1. PICK step \in {"abort", "idle"} :
            /\ Goes("main", step) /\ UNCHANGED <<again, job, seeking>> /\ Ends("not_installed")
            /\ step = "abort" => Here
      BY <1>3, <2>2 DEF Writes, Fails
    <3> QED
      BY <1>1, <1>3, <2>2, <3>1, MainGoes, AskingIs DEF Writes, Uploading, Ends, Phases, Verdicts, Here
  <2> QED
    BY <2>1, <2>2
<1>4. CASE Switches(how)
  <2>1. CASE how \in {"ok", "lost"}
    BY <1>1, <1>4, <2>1, MainGoes, AskingIs
       DEF Switches, AfterReboot, Uploading, Phases, Verdicts, Here
  <2>2. CASE how = "failed"
    <3>1. PICK step \in {"abort", "idle"} :
            /\ Goes("main", step) /\ UNCHANGED <<again, job, seeking>> /\ Ends("not_installed")
            /\ step = "abort" => Here
      BY <1>4, <2>2 DEF Switches, Fails
    <3> QED
      BY <1>1, <1>4, <2>2, <3>1, MainGoes, AskingIs DEF Switches, Uploading, Ends, Phases, Verdicts, Here
  <2>3. CASE how = "timeout"
    BY <1>1, <1>4, <2>3, MainGoes, AskingIs DEF Switches, Uploading, updVars, Here
  <2> QED
    BY <1>1, <2>1, <2>2, <2>3
<1>5. CASE Probes(how, data)
  <2>1. PICK step \in {"idle", "release"} :
          /\ Goes("main", step) /\ UNCHANGED <<again, job, seeking>> /\ said' \in Verdicts
          /\ step = "release" => phase' = phase /\ Here
          /\ step = "idle" => phase' = "done" \/ (phase' = "switched_no_restart" /\ Here)
    BY <1>1, <1>5 DEF Probes, Ends, NotRestarted, Verdicts
  <2> QED
    BY <1>1, <1>5, <2>1, MainGoes, AskingIs DEF Probes, Uploading, Phases, Here
<1>6. CASE Releases
  <2>1. /\ Goes("main", "idle") /\ UNCHANGED <<again, job, seeking>> /\ said' \in Verdicts
        /\ phase' = phase \/ (pc.main = "release" /\ phase' = "done")
    BY <1>1, <1>6 DEF Releases, Ends, Verdicts
  <2> QED
    BY <1>1, <1>6, <2>1, MainGoes, AskingIs DEF Uploading, Phases, Here
<1>7. CASE Restarted(how)
  <2>1. CASE how # "ok" /\ Here
    BY <1>1, <1>7, <2>1, MainGoes, AskingIs
       DEF Restarted, NotRestarted, Uploading, Phases, Verdicts, Here
  <2>2. CASE ~(how # "ok" /\ Here)
    BY <1>1, <1>7, <2>2, MainGoes, AskingIs
       DEF Restarted, AfterReboot, Uploading, Phases, Verdicts, Here
  <2> QED
    BY <2>1, <2>2
<1> QED
  BY <1>2, <1>3, <1>4, <1>5, <1>6, <1>7

\* decideOutcome() starts the checks on an image on trial, and offers Restart now
\* on one that is not.
LEMMA OutcomeIs ==
  ASSUME NEW info \in Infos
  PROVE  /\ Outcome(info) \in {"confirming", "not_restarted", "same_build", "confirmed",
                              "rolled_back", "unexpected"}
         /\ Outcome(info) = "confirming" => info.pending
         /\ Outcome(info) = "not_restarted" => ~info.pending
BY DEF Outcome, Infos

\* Two flows change at once: the one that has read FW_INFO is over, and the checks
\* (or the sleep before another read) begin.
LEMMA BothKeep ==
  ASSUME PageInv, NEW f \in {"main", "conn", "report"}, NEW how, NEW data, Resumed(f, how, data),
         NEW g \in {"report", "confirm"}, g # f, pc[g] = "idle",
         NEW step \in StepsOf[g], step \notin {"discover"},
         pc' = [[pc EXCEPT ![f] = "idle"] EXCEPT ![g] = step],
         waiting' = IF step \in Asking THEN Append(waiting, g) ELSE waiting,
         link # "none", pc.main \notin Uploading,
         again' \in 0..3, phase' \in Phases, job' \in Jobs, said' \in Verdicts, seeking' = seeking,
         MainPhase', ReportPhase', Sleeps', ConfirmAlone', Settled', Passed'
  PROVE  PageInv'
<1>1. /\ waiting \in Seq(Flows) /\ pc \in [Flows -> Steps]
      /\ link' = link /\ txn' = NoTxn /\ "main" \in Flows /\ "conn" \in Flows
      /\ f \in Flows /\ g \in Flows
  BY DEF PageInv, PageTypes, Resumed, Stable, Flows
<1>2. step \in Steps /\ "idle" \in Steps /\ "idle" \notin Asking
  BY AskingIs DEF StepsOf, Steps, Flows
<1>3. /\ pc' \in [Flows -> Steps] /\ pc'[f] = "idle" /\ pc'[g] = step
      /\ \A h \in Flows : h \notin {f, g} => pc'[h] = pc[h]
  BY <1>1, <1>2
<1>4. \A i \in 1..Len(waiting) : /\ waiting[i] \in Flows /\ waiting[i] \notin {f, g}
                                /\ pc'[waiting[i]] \in Asking
  BY <1>1, <1>2, <1>3 DEF PageInv, Queued, Resumed, Free
<1>5. /\ waiting' \in Seq(Flows) /\ Len(waiting) \in Nat
      /\ \A i \in 1..Len(waiting) : i \in 1..Len(waiting') /\ waiting'[i] = waiting[i]
      /\ \A i \in 1..Len(waiting') :
           \/ i \in 1..Len(waiting)
           \/ i = Len(waiting) + 1 /\ waiting'[i] = g /\ pc'[g] \in Asking
  <2>1. CASE step \in Asking
    <3>1. waiting' = Append(waiting, g)
      BY <2>1
    <3> QED
      BY <1>1, <1>3, <2>1, <3>1, Appended
  <2>2. CASE step \notin Asking
    BY <1>1, <2>2
  <2> QED
    BY <2>1, <2>2
<1>6. Queued'
  <2>1. \A i \in 1..Len(waiting') : pc'[waiting'[i]] \in Asking /\ waiting'[i] # "none"
    BY <1>1, <1>4, <1>5 DEF Flows
  <2>2. \A i, j \in 1..Len(waiting') : waiting'[i] = waiting'[j] => i = j
    BY <1>4, <1>5 DEF PageInv, Queued
  <2> QED
    BY <1>1, <2>1, <2>2 DEF Queued, NoTxn
<1>7. PageTypes'
  BY <1>1, <1>3, <1>5 DEF PageTypes, PageInv, NoTxn
<1>8. OwnSteps'
  BY <1>3 DEF OwnSteps, PageInv, StepsOf, Flows
<1>9. Linked'
  BY <1>1 DEF Linked, PageInv
<1>10. ConnFirst'
  <2>1. pc'.main \notin Uploading
    BY <1>1, <1>3 DEF Uploading
  <2>2. pc'.conn = "info" => pc.conn = "info" /\ f # "conn"
    BY <1>1, <1>3
  <2>3. pc'.conn = "info" /\ link' # "none" =>
           txn'.by = "conn" \/ \E i \in 1..Len(waiting') : waiting'[i] = "conn"
    BY <1>1, <1>5, <2>2 DEF ConnFirst, PageInv, Resumed
  <2> QED
    BY <1>1, <2>1, <2>3 DEF ConnFirst, NoTxn, Uploading
<1> QED
  BY <1>6, <1>7, <1>8, <1>9, <1>10 DEF PageInv

\* The end of onUpdateReconnected() for whoever called it.
LEMMA ReportsKeeps ==
  ASSUME PageInv, NEW f \in {"main", "conn", "report"}, NEW data, Resumed(f, "ok", data),
         pc[f] \in {"reread", "info", "retry"}, Reports(data, [pc EXCEPT ![f] = "idle"]),
         UNCHANGED <<again, job, seeking>>,
         phase = "rebooting" \/ (f = "report" /\ phase = "switched_no_restart"),
         f = "report" \/ pc.report = "idle"
  PROVE  PageInv'
<1>1. /\ data \in Infos /\ (NotOnTrial => ~data.pending) /\ (~data.pending => NotOnTrial')
      /\ link # "none" /\ Stable
  BY ExpectedIs DEF Resumed, Tells
<1>2. /\ pc \in [Flows -> Steps] /\ again \in 0..3 /\ job \in Jobs /\ said \in Verdicts
      /\ pc.confirm = "idle" /\ pc.main \notin Uploading \cup {"plan", "ask"}
      /\ pc[f] # "idle" /\ f \in Flows
      /\ \A g \in Flows : pc[g] \in StepsOf[g]
  BY <1>1 DEF PageInv, PageTypes, ConfirmAlone, MainPhase, OwnSteps, Uploading, Flows
<1>3. (f = "main" => pc.main = "reread") /\ (f = "conn" => pc.conn # "idle")
      /\ (f = "report" => pc.report # "idle")
  BY <1>2 DEF StepsOf, Flows
<1>4. CASE Outcome(data) = "confirming"
  <2>1. /\ pc' = [[pc EXCEPT ![f] = "idle"] EXCEPT !.confirm = "firmware"]
        /\ waiting' = Append(waiting, "confirm") /\ phase' = "confirming" /\ said' = said
    BY <1>4 DEF Reports
  <2>2. /\ pc'.confirm = "firmware" /\ pc'.report = "idle"
        /\ (pc'.main = pc.main \/ pc'.main = "idle")
        /\ f = "main" => pc'.main = "idle"
    BY <1>2, <2>1 DEF Flows
  <2>3. data.pending /\ ~NotOnTrial
    BY <1>1, <1>4, OutcomeIs
  <2>4. pc'.main # "restart"
    BY <1>1, <1>3, <2>2, <2>3 DEF PageInv, Settled
  <2>5. MainPhase' /\ ReportPhase' /\ Sleeps' /\ ConfirmAlone'
    BY <1>2, <2>1, <2>2, <2>4 DEF MainPhase, ReportPhase, Sleeps, ConfirmAlone, Uploading
  <2>6. Settled' /\ Passed'
    BY <2>1, <2>2, <2>4 DEF Settled, Passed
  <2>7. "firmware" \in StepsOf["confirm"] /\ "firmware" \in Asking /\ "confirming" \in Phases
    BY AskingIs DEF StepsOf, Phases
  <2> QED
    BY <1>1, <1>2, <2>1, <2>5, <2>6, <2>7, BothKeep
<1>5. CASE Outcome(data) # "confirming"
  <2>1. /\ pc' = [pc EXCEPT ![f] = "idle"] /\ waiting' = waiting /\ said' \in Verdicts
        /\ \/ phase' = "switched_no_restart" /\ ~data.pending
           \/ phase' = "done"
    BY <1>1, <1>5, OutcomeIs DEF Reports, NotRestarted, Ends, Verdicts
  <2>2. /\ pc'.confirm = "idle" /\ pc'.report = "idle"
        /\ (pc'.main = pc.main \/ pc'.main = "idle")
        /\ f = "main" => pc'.main = "idle"
    BY <1>2, <2>1 DEF Flows
  <2>3. MainPhase' /\ ReportPhase' /\ Sleeps' /\ ConfirmAlone'
    BY <1>2, <2>1, <2>2 DEF MainPhase, ReportPhase, Sleeps, ConfirmAlone, Uploading
  <2>4. Settled' /\ Passed'
    <3>1. phase' = "switched_no_restart" => NotOnTrial'
      BY <1>1, <2>1
    <3>2. pc'.main = "restart" => NotOnTrial'
      BY <1>1, <1>3, <2>2 DEF PageInv, Settled, Stable
    <3> QED
      BY <2>2, <3>1, <3>2 DEF Settled, Passed
  <2>5. Goes(f, "idle") /\ "idle" \in StepsOf[f] /\ "idle" \notin Asking
    BY <2>1, AskingIs DEF Goes, StepsOf
  <2>6. phase' \in Phases
    BY <2>1 DEF Phases
  <2> QED
    BY <1>1, <1>2, <2>1, <2>3, <2>4, <2>5, <2>6, GoesKeeps DEF Resumed, Uploading
<1> QED
  BY <1>4, <1>5

\* Only one reader of FW_INFO decides what came back.
LEMMA UpdateReconnectedKeeps ==
  ASSUME PageInv, NEW f \in {"main", "conn"}, NEW how, NEW data, Resumed(f, how, data),
         pc[f] \in {"reread", "info"}, UpdateReconnected(how, data, [pc EXCEPT ![f] = "idle"])
  PROVE  PageInv'
<1>1. Stable /\ (how = "lost" <=> ~Here) /\ (Here <=> link # "none")
  BY DEF Resumed, Here
<1>2. /\ pc \in [Flows -> Steps] /\ again \in 0..3 /\ job \in Jobs /\ said \in Verdicts
      /\ phase \in Phases /\ pc[f] # "idle" /\ f \in Flows
      /\ \A g \in Flows : pc[g] \in StepsOf[g]
      /\ job' = job /\ seeking' = seeking
  BY DEF PageInv, PageTypes, OwnSteps, Flows, UpdateReconnected
<1>3. /\ (f = "main" => pc.main = "reread") /\ (f = "conn" => pc.conn = "info")
      /\ "idle" \in StepsOf[f] /\ "idle" \notin Asking
  BY <1>2, AskingIs DEF StepsOf, Flows
<1>4. CASE phase # "rebooting" \/ pc.report # "idle"
  <2>1. /\ Goes(f, "idle") /\ phase' = phase /\ again' = again /\ said' = said
        /\ pc' = [pc EXCEPT ![f] = "idle"]
    BY <1>3, <1>4 DEF UpdateReconnected, Goes
  <2>2. /\ pc'.confirm = pc.confirm /\ pc'.report = pc.report
        /\ (pc'.main = pc.main \/ pc'.main = "idle") /\ (f = "main" => pc'.main = "idle")
        /\ (pc'.conn = pc.conn \/ pc'.conn = "idle")
    BY <1>2, <2>1 DEF Flows
  <2>3. MainPhase' /\ ReportPhase' /\ Sleeps' /\ ConfirmAlone' /\ Passed'
    BY <1>1, <2>1, <2>2 DEF PageInv, MainPhase, ReportPhase, Sleeps, ConfirmAlone, Uploading, Stable, Passed
  <2>4. Settled'
    BY <1>1, <1>3, <2>1, <2>2 DEF PageInv, Settled, Stable
  <2>5. link = "none" => phase' # "switched_no_restart"
    BY <2>1 DEF PageInv, Linked
  <2> QED
    BY <1>1, <1>2, <1>3, <2>1, <2>3, <2>4, <2>5, GoesKeeps DEF Resumed, Uploading
<1>5. CASE phase = "rebooting" /\ pc.report = "idle" /\ how = "ok"
  BY <1>5, ReportsKeeps DEF UpdateReconnected
<1>6. CASE phase = "rebooting" /\ pc.report = "idle" /\ how # "ok" /\ Here
  <2>1. pc' = [[pc EXCEPT ![f] = "idle"] EXCEPT !.report = "sleep"]
    BY <1>6 DEF UpdateReconnected
  <2>2. waiting' = waiting /\ again' = 3 /\ phase' = phase /\ said' = said
    BY <1>6 DEF UpdateReconnected
  <2>3. /\ pc'.confirm = pc.confirm /\ pc'.report = "sleep"
        /\ (pc'.main = pc.main \/ pc'.main = "idle") /\ (f = "main" => pc'.main = "idle")
    BY <1>2, <2>1 DEF Flows
  <2>4. pc.confirm = "idle" /\ pc.main \notin Uploading \cup {"plan", "ask"}
    BY <1>1, <1>6 DEF PageInv, ConfirmAlone, MainPhase
  <2>5. /\ MainPhase' /\ ReportPhase' /\ Sleeps' /\ ConfirmAlone'
    <3>1. MainPhase'
      BY <1>6, <2>2, <2>3, <2>4 DEF MainPhase, Uploading
    <3>2. ReportPhase' /\ Sleeps'
      BY <1>6, <2>2, <2>3, <2>4 DEF ReportPhase, Sleeps
    <3>3. ConfirmAlone'
      BY <1>6, <2>2, <2>3, <2>4 DEF ConfirmAlone
    <3> QED
      BY <3>1, <3>2, <3>3
  <2>6. Settled' /\ Passed'
    BY <1>1, <1>3, <1>6, <2>2, <2>3, <2>4 DEF PageInv, Settled, Stable, Passed
  <2>7. "sleep" \in StepsOf["report"] /\ "sleep" \notin Asking
    BY AskingIs DEF StepsOf
  <2>8. again' \in 0..3 /\ phase' \in Phases /\ job' \in Jobs /\ said' \in Verdicts
        /\ seeking' = seeking /\ pc["report"] = "idle" /\ "report" # f
    BY <1>2, <1>6, <2>2
  <2>9. /\ waiting' = IF "sleep" \in Asking THEN Append(waiting, "report") ELSE waiting
        /\ "sleep" \notin {"discover"} /\ link # "none" /\ pc.main \notin Uploading
        /\ f \in {"main", "conn", "report"} /\ "report" \in {"report", "confirm"}
    BY <1>1, <1>6, <2>2, <2>4, <2>7
  <2> QED
    BY <1>1, <1>6, <2>1, <2>2, <2>4, <2>5, <2>6, <2>7, <2>8, <2>9, BothKeep
<1>7. CASE phase = "rebooting" /\ pc.report = "idle" /\ ~Here
  <2>1. /\ Goes(f, "idle") /\ phase' = "done" /\ again' = again /\ said' = "no_device"
        /\ pc' = [pc EXCEPT ![f] = "idle"]
    BY <1>1, <1>3, <1>7 DEF UpdateReconnected, Goes, Ends
  <2>2. /\ pc'.confirm = pc.confirm /\ pc'.report = pc.report
        /\ (pc'.main = pc.main \/ pc'.main = "idle")
    BY <1>2, <2>1 DEF Flows
  <2>3. MainPhase' /\ ReportPhase' /\ Sleeps' /\ ConfirmAlone' /\ Passed' /\ Settled'
    BY <1>1, <1>7, <2>1, <2>2
       DEF PageInv, MainPhase, ReportPhase, Sleeps, ConfirmAlone, Uploading, Stable, Passed, Settled
  <2>4. "done" \in Phases /\ "no_device" \in Verdicts
    BY DEF Phases, Verdicts
  <2> QED
    BY <1>1, <1>2, <1>3, <1>7, <2>1, <2>3, <2>4, GoesKeeps DEF Resumed, Uploading
<1> QED
  BY <1>4, <1>5, <1>6, <1>7

\* The loop of onUpdateReconnected(): it reads again, reports, or gives up.
LEMMA ReadsAgainKeeps ==
  ASSUME PageInv, NEW how, NEW data, Resumed("report", how, data), ReadsAgain(how, data)
  PROVE  PageInv'
<1>1. /\ Stable /\ (how = "lost" <=> ~Here) /\ (Here <=> link # "none")
      /\ pc.report = "retry" /\ UNCHANGED <<again, job, seeking>>
  BY DEF Resumed, Here, ReadsAgain
<1>2. /\ pc \in [Flows -> Steps] /\ again \in 0..3 /\ job \in Jobs /\ said \in Verdicts
      /\ phase \in Phases /\ phase \in {"rebooting", "switched_no_restart"}
      /\ pc.confirm = "idle"
      /\ link = "none" => phase # "switched_no_restart"
  BY <1>1 DEF PageInv, PageTypes, ReportPhase, ConfirmAlone, Linked
<1>3. CASE how = "ok"
  BY <1>1, <1>2, <1>3, ReportsKeeps DEF ReadsAgain
<1>4. CASE how # "ok" /\ again > 0 /\ Here
  <2>1. Goes("report", "sleep") /\ phase' = phase /\ said' = said
    BY <1>4 DEF ReadsAgain
  <2>2. /\ pc'.main = pc.main /\ pc'.conn = pc.conn /\ pc'.confirm = "idle"
        /\ pc'.report = "sleep"
    BY <1>2, <2>1 DEF Goes, Flows
  <2>3. MainPhase' /\ ReportPhase' /\ Sleeps' /\ ConfirmAlone' /\ Passed'
    BY <1>1, <1>2, <1>4, <2>1, <2>2
       DEF PageInv, MainPhase, ReportPhase, Sleeps, ConfirmAlone, Passed
  <2>4. Settled'
    BY <1>1, <2>1, <2>2 DEF PageInv, Settled, Stable
  <2>5. "sleep" \in StepsOf["report"] /\ "sleep" \notin Asking /\ "report" \in Flows
    BY AskingIs DEF StepsOf, Flows
  <2> QED
    BY <1>1, <1>2, <2>1, <2>3, <2>4, <2>5, GoesKeeps DEF Resumed
<1>5. CASE how # "ok" /\ ~(again > 0 /\ Here)
  <2>1. /\ pc' = [pc EXCEPT !.report = "idle"] /\ waiting' = waiting
        /\ phase' = "done" /\ said' = "no_device"
    BY <1>5 DEF ReadsAgain, Ends
  <2>2. /\ pc'.main = pc.main /\ pc'.conn = pc.conn /\ pc'.confirm = "idle"
        /\ pc'.report = "idle"
    BY <1>2, <2>1 DEF Flows
  <2>3. MainPhase' /\ ReportPhase' /\ Sleeps' /\ ConfirmAlone' /\ Passed'
    BY <1>1, <1>2, <2>1, <2>2
       DEF PageInv, MainPhase, ReportPhase, Sleeps, ConfirmAlone, Passed, Uploading
  <2>4. Settled'
    BY <1>1, <2>1, <2>2 DEF PageInv, Settled, Stable
  <2>5. /\ "idle" \in StepsOf["report"] /\ "idle" \notin Asking /\ "report" \in Flows
        /\ Goes("report", "idle") /\ "done" \in Phases /\ "no_device" \in Verdicts
    BY <2>1, AskingIs DEF StepsOf, Flows, Goes, Phases, Verdicts
  <2> QED
    BY <1>1, <1>2, <2>1, <2>3, <2>4, <2>5, GoesKeeps DEF Resumed
<1> QED
  BY <1>3, <1>4, <1>5

\* confirmFlashedImage(): one check after the other, each answered in this boot.
LEMMA ConfirmsKeeps ==
  ASSUME PageInv, NEW how, NEW data, Resumed("confirm", how, data), Confirms(how, data)
  PROVE  PageInv'
<1>1. /\ Stable /\ (how = "lost" <=> link = "none") /\ UNCHANGED <<job, seeking>>
      /\ pc \in [Flows -> Steps] /\ again \in 0..3 /\ job \in Jobs /\ said \in Verdicts
      /\ phase \in Phases /\ "confirm" \in Flows
      /\ link = "none" => phase # "switched_no_restart"
  BY DEF Resumed, Confirms, PageInv, PageTypes, Linked, Flows
<1>2. /\ pc.confirm \in {"firmware", "protocol", "sensor", "sensor_again", "mark", "verify"}
      /\ pc.report = "idle" /\ pc.main \notin Uploading \cup {"plan", "ask", "restart"}
      /\ phase = "rebooting" => link = "none"
  BY AskingIs, <1>1 DEF PageInv, OwnSteps, StepsOf, ConfirmAlone, Resumed, Flows
<1>3. PICK step \in StepsOf["confirm"] :
        /\ Goes("confirm", step) /\ again' \in 0..3 /\ said' \in Verdicts
        /\ phase' = phase \/ (step = "idle" /\ phase' \in {"waiting_rollback", "done"} /\ how # "lost")
        /\ how = "lost" => step = "idle"
        /\ step = "firmware" => FALSE
        /\ step = "protocol" => how = "ok" /\ pc.confirm = "firmware"
        /\ step = "sensor" => how = "ok" /\ pc.confirm \in {"protocol", "sensor", "sensor_again"}
        /\ step = "sensor_again" => how = "ok" /\ pc.confirm = "sensor" /\ data = "healthy"
        /\ step = "mark" => pc.confirm = "sensor_again"
        /\ step = "verify" => pc.confirm = "mark"
  <2>1. /\ "protocol" \in StepsOf["confirm"] /\ "sensor" \in StepsOf["confirm"]
        /\ "sensor_again" \in StepsOf["confirm"] /\ "mark" \in StepsOf["confirm"]
        /\ "verify" \in StepsOf["confirm"] /\ "idle" \in StepsOf["confirm"]
    BY DEF StepsOf
  <2>2. CASE how = "lost"
    BY <1>1, <2>1, <2>2 DEF Confirms, NextCheck
  <2>3. CASE how # "lost" /\ ChecksDevice(how, data)
    BY <1>1, <2>1, <2>3 DEF ChecksDevice, CheckFails, NextCheck, Confirmed, Ends, Verdicts
  <2>4. CASE how # "lost" /\ ChecksProtocol(how)
    BY <1>1, <2>1, <2>4 DEF ChecksProtocol, CheckFails, NextCheck, SensorPolls
  <2>5. CASE how # "lost" /\ pc.confirm \in {"sensor", "sensor_again"} /\ ChecksSensor(how, data)
    <3>1. CASE how = "ok" /\ data = "healthy"
      BY <1>1, <2>1, <2>5, <3>1 DEF ChecksSensor, NextCheck
    <3>2. CASE ~(how = "ok" /\ data = "healthy") /\ how = "ok" /\ data = "not_observed" /\ again > 0
      BY <1>1, <2>1, <2>5, <3>2 DEF ChecksSensor, NextCheck
    <3>3. CASE ~(how = "ok" /\ data = "healthy") /\ ~(how = "ok" /\ data = "not_observed" /\ again > 0)
      BY <1>1, <2>1, <2>5, <3>3 DEF ChecksSensor, CheckFails
    <3> QED
      BY <3>1, <3>2, <3>3
  <2>6. CASE how # "lost" /\ MarksValid(how, data)
    BY <1>1, <2>1, <2>6 DEF MarksValid, NextCheck, NotConfirmed, Confirmed, Ends, Verdicts
  <2> QED
    BY <2>2, <2>3, <2>4, <2>5, <2>6 DEF Confirms
<1>4. /\ pc'.main = pc.main /\ pc'.conn = pc.conn /\ pc'.report = "idle"
      /\ pc'.confirm = step
  BY <1>1, <1>2, <1>3 DEF Goes, Flows
<1>5. MainPhase' /\ ReportPhase' /\ Sleeps' /\ ConfirmAlone'
  BY <1>1, <1>2, <1>3, <1>4
     DEF PageInv, MainPhase, ReportPhase, Sleeps, ConfirmAlone, Stable, Uploading
<1>6. Settled'
  BY <1>1, <1>2, <1>3, <1>4 DEF PageInv, Settled, Stable
<1>7. Passed'
  <2>1. OnTrial' => OnTrial /\ vetted' = vetted
    BY <1>1 DEF Stable
  <2>2. how = "ok" =>
          /\ pc.confirm = "firmware" => (OnTrial => "firmware" \in vetted)
          /\ pc.confirm = "protocol" => (OnTrial => "protocol" \in vetted)
          /\ pc.confirm \in {"sensor", "sensor_again"} /\ data = "healthy"
               => (OnTrial => "sensor" \in vetted)
    BY ExpectedIs DEF Resumed, Tells
  <2> QED
    BY <1>2, <1>3, <1>4, <2>1, <2>2 DEF PageInv, Passed
<1>8. phase' \in Phases /\ (link = "none" => step \notin Asking /\ phase' # "switched_no_restart")
  BY <1>1, <1>3, AskingIs DEF Phases
<1> QED
  BY <1>1, <1>3, <1>5, <1>6, <1>7, <1>8, GoesKeeps DEF Resumed

\* The button, and the FW_INFO after it.
LEMMA MarksByHandKeeps ==
  ASSUME PageInv, NEW how, NEW data, Resumed("hand", how, data), MarksByHand(how, data)
  PROVE  PageInv'
<1>1. /\ Stable /\ (how = "lost" <=> link = "none") /\ UNCHANGED <<again, job, seeking>>
      /\ pc \in [Flows -> Steps] /\ again \in 0..3 /\ job \in Jobs /\ said \in Verdicts
      /\ phase \in Phases /\ "hand" \in Flows
      /\ link = "none" => phase # "switched_no_restart"
  BY DEF Resumed, MarksByHand, PageInv, PageTypes, Linked, Flows
<1>2. PICK step \in {"hand_info", "idle"} :
        /\ Goes("hand", step) /\ said' \in Verdicts
        /\ step = "hand_info" => link # "none"
        /\ phase' = phase \/ (phase = "waiting_rollback" /\ phase' = "done")
  BY <1>1 DEF MarksByHand, Here, Ends, Verdicts
<1>3. /\ pc'.main = pc.main /\ pc'.conn = pc.conn /\ pc'.report = pc.report
      /\ pc'.confirm = pc.confirm
  BY <1>1, <1>2 DEF Goes, Flows
<1>4. MainPhase' /\ ReportPhase' /\ Sleeps' /\ ConfirmAlone' /\ Passed'
  BY <1>1, <1>2, <1>3
     DEF PageInv, MainPhase, ReportPhase, Sleeps, ConfirmAlone, Stable, Uploading, Passed
<1>5. Settled'
  BY <1>1, <1>2, <1>3 DEF PageInv, Settled, Stable
<1>6. /\ phase' \in Phases /\ step \in StepsOf["hand"]
      /\ link = "none" => step \notin Asking /\ phase' # "switched_no_restart"
  BY <1>1, <1>2, AskingIs DEF Phases, StepsOf
<1> QED
  BY <1>1, <1>2, <1>4, <1>5, <1>6, GoesKeeps DEF Resumed

LEMMA ResumesKeeps ==
  ASSUME PageInv, NEW f \in Flows, NEW how, NEW data, Resumed(f, how, data),
         Resumes(f, how, data)
  PROVE  PageInv'
<1>1. CASE f = "main" /\ ~Rereads(how, data)
  BY <1>1, MainResumes DEF Resumes
<1>2. CASE f = "main" /\ Rereads(how, data)
  BY <1>2, UpdateReconnectedKeeps DEF Rereads
<1>3. CASE f = "conn"
  BY <1>3, UpdateReconnectedKeeps DEF Resumes, Informs
<1>4. CASE f = "report"
  BY <1>4, ReadsAgainKeeps DEF Resumes
<1>5. CASE f = "confirm"
  BY <1>5, ConfirmsKeeps DEF Resumes
<1>6. CASE f = "hand"
  BY <1>6, MarksByHandKeeps DEF Resumes
<1> QED
  BY <1>1, <1>2, <1>3, <1>4, <1>5, <1>6 DEF Flows

-----------------------------------------------------------------------------
\* Steps of the page leave the device alone.  They may take the reply at the head,
\* and send a request; MARK_VALID only once the checks have passed.
PageStep == UNCHANGED <<deviceVars, historyVars>> /\ link' = link
MaySend ==
  \E request \in Requests :
    /\ link = "open" /\ requests' = Append(requests, request)
    /\ request = "MARK_VALID" /\ OnTrial => vetted = Checks

LEMMA PageWire ==
  ASSUME WireInv, PageStep,
         replies' = replies \/ (replies # <<>> /\ replies' = Tail(replies)),
         requests' = requests \/ MaySend
  PROVE  WireInv' /\ Stable
<1>1. /\ replies \in Seq(Replies) /\ requests \in Seq(Requests) /\ Len(replies) \in Nat
  BY DEF WireInv, DeviceTypes
<1>2. /\ PendingVerify' = PendingVerify /\ link' = link /\ vetted' = vetted
      /\ UNCHANGED <<image, state, boot, running, version, origin, session, up, rebooting, resets, updates>>
  BY DEF PageStep, deviceVars, imageVars, historyVars, flashVars, PendingVerify
<1>3. PICK n \in {0, 1} :
        /\ replies' \in Seq(Replies) /\ Len(replies') = Len(replies) - n
        /\ \A i \in 1..Len(replies') : replies'[i] = replies[i + n] /\ i + n \in 1..Len(replies)
        /\ replies = <<>> => replies' = replies
  <2>1. CASE replies' = replies
    BY <1>1, <2>1
  <2>2. CASE replies # <<>> /\ replies' = Tail(replies)
    BY <1>1, <2>2, Tailed
  <2> QED
    BY <2>1, <2>2
<1>4. (NotOnTrial => NotOnTrial') /\ (OnTrial' <=> OnTrial)
  BY <1>1, <1>2, <1>3 DEF NotOnTrial, OnTrial
<1>5. /\ requests' \in Seq(Requests)
      /\ \A i \in 1..Len(requests') :
           \/ i \in 1..Len(requests) /\ requests'[i] = requests[i]
           \/ OnTrial /\ requests'[i] = "MARK_VALID" => vetted = Checks
      /\ link # "open" => requests' = requests
  <2>1. CASE requests' = requests
    BY <1>1, <2>1
  <2>2. CASE MaySend
    <3>1. PICK request \in Requests :
            /\ link = "open" /\ requests' = Append(requests, request)
            /\ request = "MARK_VALID" /\ OnTrial => vetted = Checks
      BY <2>2 DEF MaySend
    <3> QED
      BY <1>1, <3>1, Appended
  <2> QED
    BY <2>1, <2>2
<1>6. InfoOrder'
  <2> SUFFICES ASSUME NEW i \in 1..Len(replies'), replies'[i].type = "FW_INFO",
                      ~replies'[i].data.pending
               PROVE  /\ link' = "open" => ~PendingVerify'
                      /\ \A j \in 1..Len(replies') :
                           j > i /\ replies'[j].type = "FW_INFO" => ~replies'[j].data.pending
    BY DEF InfoOrder
  <2>1. /\ i + n \in 1..Len(replies) /\ replies[i + n].type = "FW_INFO"
        /\ ~replies[i + n].data.pending
    BY <1>3
  <2>2. /\ link = "open" => ~PendingVerify
        /\ \A j \in 1..Len(replies) :
             j > i + n /\ replies[j].type = "FW_INFO" => ~replies[j].data.pending
    BY <2>1 DEF WireInv, InfoOrder
  <2>3. \A j \in 1..Len(replies') : j > i => j + n > i + n
    BY <1>1, <1>3
  <2> QED
    BY <1>2, <1>3, <2>2, <2>3
<1>7. Vetted'
  BY <1>1, <1>2, <1>3, <1>4, <1>5 DEF WireInv, Vetted
<1>8. DeviceTypes'
  BY <1>2, <1>3, <1>5 DEF WireInv, DeviceTypes, FlashTypeOK
<1>9. /\ link' # "open" => requests' = <<>>
      /\ link' = "none" => replies' = <<>>
      /\ ~up' => link' # "open"
  BY <1>2, <1>3, <1>5 DEF WireInv
<1> QED
  BY <1>2, <1>4, <1>6, <1>7, <1>8, <1>9 DEF WireInv, Stable

\* What the head says now is what it said when the device sent it.
LEMMA HeadTells ==
  ASSUME WireInv, PageStep, replies # <<>>, replies' = Tail(replies)
  PROVE  Tells(Head(replies).type, Head(replies).data)
<1>1. /\ replies \in Seq(Replies) /\ PendingVerify' = PendingVerify /\ link' = link
  BY DEF WireInv, DeviceTypes, PageStep, deviceVars, imageVars, flashVars, PendingVerify
<1>2. /\ Len(replies) \in Nat \ {0} /\ Len(replies') = Len(replies) - 1
      /\ \A i \in 1..Len(replies') : replies'[i] = replies[i + 1] /\ i + 1 \in 1..Len(replies)
      /\ Head(replies) = replies[1] /\ Head(replies) \in Replies /\ 1 \in 1..Len(replies)
  BY <1>1, Tailed
<1>3. CASE Head(replies).type = "FW_INFO"
  <2>1. Head(replies).data \in Infos
    BY <1>2, <1>3 DEF Replies
  <2>2. NotOnTrial => ~Head(replies).data.pending
    BY <1>2, <1>3 DEF NotOnTrial
  <2>3. ~Head(replies).data.pending => NotOnTrial'
    BY <1>1, <1>2, <1>3 DEF WireInv, InfoOrder, NotOnTrial
  <2>4. OnTrial => "firmware" \in vetted
    BY <1>2, <1>3 DEF WireInv, Vetted
  <2> QED
    BY <1>3, <2>1, <2>2, <2>3, <2>4 DEF Tells
<1>4. CASE Head(replies).type = "DIAGNOSTICS"
  BY <1>2, <1>4 DEF WireInv, Vetted, Tells, Replies
<1>5. CASE Head(replies).type \notin {"FW_INFO", "DIAGNOSTICS"}
  BY <1>2, <1>5 DEF WireInv, Vetted, Tells
<1> QED
  BY <1>3, <1>4, <1>5

\* A flow's request may go out: MARK_VALID is that of the last check's success.
LEMMA AsksFor ==
  ASSUME PageInv, WireInv, NEW f \in Flows, pc[f] \in Asking, OnTheLink(Asks[pc[f]])
  PROVE  requests' = requests \/ MaySend
<1>1. Asks[pc[f]] \in Requests
  BY AskingIs
<1>2. Asks[pc[f]] = "MARK_VALID" => pc[f] = "mark"
  BY AskingIs DEF Asks
<1>3. pc[f] = "mark" => f = "confirm"
  BY DEF PageInv, OwnSteps, StepsOf, Flows
<1>4. OnTrial /\ pc.confirm = "mark" => vetted = Checks
  BY DEF PageInv, Passed, WireInv, DeviceTypes, Checks
<1>5. OnTrial /\ Asks[pc[f]] = "MARK_VALID" => vetted = Checks
  BY <1>2, <1>3, <1>4
<1> QED
  BY <1>1, <1>5 DEF OnTheLink, MaySend

-----------------------------------------------------------------------------
\* A step of the device, or of the cable, changes nothing of the page.
Steady ==
  /\ link' \in {"none", "open", "dead"} /\ (link' = "none" <=> link = "none")
  /\ NotOnTrial => NotOnTrial'
  /\ OnTrial' => OnTrial /\ vetted \subseteq vetted'

LEMMA PageUnchanged ==
  ASSUME PageInv, Steady, UNCHANGED <<waiting, pc, again, phase, job, said, seeking>>,
         txn' = txn \/ (txn # NoTxn /\ txn' = [txn EXCEPT !.left = 0])
  PROVE  PageInv'
<1>1. /\ txn' \in [by : Flows \cup {"none"}, left : 0..1] /\ txn'.by = txn.by
      /\ (txn.by = "none" => txn'.left = 0) /\ (txn = NoTxn => txn' = txn)
  BY DEF PageInv, PageTypes, Queued
<1>2. PageTypes' /\ OwnSteps'
  BY <1>1 DEF PageInv, PageTypes, OwnSteps, Steady
<1>3. Queued'
  BY <1>1 DEF PageInv, Queued
<1>4. Linked' /\ ConnFirst'
  BY <1>1 DEF PageInv, Linked, ConnFirst, Steady
<1>5. MainPhase' /\ ReportPhase' /\ Sleeps' /\ ConfirmAlone'
  BY DEF PageInv, MainPhase, ReportPhase, Sleeps, ConfirmAlone, Steady
<1>6. Settled' /\ Passed'
  BY DEF PageInv, Settled, Passed, Steady
<1> QED
  BY <1>2, <1>3, <1>4, <1>5, <1>6 DEF PageInv

\* The bootloader and the calls of the update code keep the slots well formed, and
\* none of those calls puts the running image on trial.
LEMMA FlashKept ==
  ASSUME FlashTypeOK
  PROVE  /\ Bootloader => FlashTypeOK'
         /\ \A s \in Slots : SetBoot(s) /\ s # running =>
              FlashTypeOK' /\ (PendingVerify' <=> PendingVerify)
         /\ EraseOther \/ WriteDescriptor \/ CommitImage =>
              FlashTypeOK' /\ (PendingVerify' <=> PendingVerify)
         /\ MarkRunningValid \/ MarkRunningInvalid => FlashTypeOK' /\ ~PendingVerify'
<1>1. \A s \in Slots : Other(s) \in Slots /\ Other(s) # s
  BY DEF Slots, Other
<1>2. Bootloader => FlashTypeOK'
  <2> SUFFICES ASSUME Bootloader PROVE FlashTypeOK'
    OBVIOUS
  <2> DEFINE swept == [s \in Slots |-> IF state[s] = "pending" THEN "aborted" ELSE state[s]]
             next  == IF state[boot] = "pending" /\ image[Other(boot)] = "full" THEN Other(boot) ELSE boot
  <2>1. next \in Slots /\ swept \in [Slots -> States]
    BY <1>1 DEF FlashTypeOK, States
  <2>2. boot' = next /\ running' = next /\ image' = image
        /\ state' = IF swept[next] = "new" THEN [swept EXCEPT ![next] = "pending"] ELSE swept
    BY DEF Bootloader
  <2>3. state' \in [Slots -> States]
    BY <2>1, <2>2 DEF States
  <2> QED
    BY <2>1, <2>2, <2>3 DEF FlashTypeOK
<1>3. \A s \in Slots : SetBoot(s) /\ s # running =>
         FlashTypeOK' /\ (PendingVerify' <=> PendingVerify)
  BY <1>1 DEF FlashTypeOK, SetBoot, States, PendingVerify
<1>4. EraseOther \/ WriteDescriptor \/ CommitImage =>
         FlashTypeOK' /\ (PendingVerify' <=> PendingVerify)
  BY <1>1 DEF FlashTypeOK, EraseOther, WriteDescriptor, CommitImage, States, Images, PendingVerify
<1>5. MarkRunningValid \/ MarkRunningInvalid => FlashTypeOK' /\ ~PendingVerify'
  BY <1>1 DEF FlashTypeOK, MarkRunningValid, MarkRunningInvalid, States, PendingVerify
<1> QED
  BY <1>2, <1>3, <1>4, <1>5

\* An answer tells what is so when it is sent; a check that it answers is vetted.
LEMMA AnswerKeeps ==
  ASSUME WireInv, NEW request, NEW sent \in BOOLEAN, NEW reply \in Replies,
         Answer(request, sent, reply),
         FlashTypeOK', session' \in BOOLEAN, rebooting' \in BOOLEAN,
         version' \in [Slots -> Versions], origin' \in [Slots -> 0..MaxUpdates],
         PendingVerify' => PendingVerify,
         reply.type = "FW_INFO" =>
            (reply.data.pending <=> PendingVerify) /\ (PendingVerify' <=> PendingVerify),
         vetted \subseteq vetted', vetted' \subseteq Checks,
         sent /\ PendingVerify =>
           /\ reply.type = "FW_INFO" => "firmware" \in vetted'
           /\ reply.type = "STATE" => "protocol" \in vetted'
           /\ reply.type = "DIAGNOSTICS" /\ reply.data = "healthy" => "sensor" \in vetted'
  PROVE  WireInv' /\ Steady /\ UNCHANGED consoleVars
<1>1. /\ link = "open" /\ link' = link /\ up' = up /\ UNCHANGED consoleVars
      /\ requests # <<>> /\ requests' = Tail(requests)
      /\ replies' = IF sent THEN Append(replies, reply) ELSE replies
  BY DEF Answer, WireInv
<1>2. /\ requests \in Seq(Requests) /\ replies \in Seq(Replies) /\ Len(replies) \in Nat
  BY DEF WireInv, DeviceTypes
<1>3. /\ requests' \in Seq(Requests)
      /\ \A i \in 1..Len(requests') : requests'[i] = requests[i + 1] /\ i + 1 \in 1..Len(requests)
  BY <1>1, <1>2, Tailed
<1>4. /\ replies' \in Seq(Replies)
      /\ \A i \in 1..Len(replies') :
           \/ i \in 1..Len(replies) /\ replies'[i] = replies[i]
           \/ sent /\ i = Len(replies) + 1 /\ replies'[i] = reply
  <2>1. CASE sent
    BY <1>1, <1>2, <2>1, Appended
  <2>2. CASE ~sent
    BY <1>1, <1>2, <2>2
  <2> QED
    BY <2>1, <2>2
<1>5. InfoOrder'
  <2> SUFFICES ASSUME NEW i \in 1..Len(replies'), replies'[i].type = "FW_INFO",
                      ~replies'[i].data.pending
               PROVE  /\ ~PendingVerify'
                      /\ \A j \in 1..Len(replies') :
                           j > i /\ replies'[j].type = "FW_INFO" => ~replies'[j].data.pending
    BY DEF InfoOrder
  <2>1. CASE i \in 1..Len(replies) /\ replies'[i] = replies[i]
    <3>1. /\ ~PendingVerify
          /\ \A j \in 1..Len(replies) :
               j > i /\ replies[j].type = "FW_INFO" => ~replies[j].data.pending
      BY <1>1, <2>1 DEF WireInv, InfoOrder
    <3> QED
      BY <1>4, <3>1
  <2>2. CASE sent /\ i = Len(replies) + 1 /\ replies'[i] = reply
    <3>1. ~PendingVerify'
      BY <2>2
    <3>2. ASSUME NEW j \in 1..Len(replies') PROVE ~(j > i)
      <4>1. j \in 1..Len(replies) \/ j = Len(replies) + 1
        BY <1>4
      <4> QED
        BY <1>2, <2>2, <4>1
    <3> QED
      BY <3>1, <3>2
  <2> QED
    BY <1>4, <2>1, <2>2
<1>6. NotOnTrial => NotOnTrial'
  BY <1>1, <1>4 DEF NotOnTrial
<1>7. OnTrial' => OnTrial /\ PendingVerify
  BY <1>1 DEF OnTrial
<1>8. Vetted'
  <2> SUFFICES ASSUME OnTrial'
               PROVE  /\ \A i \in 1..Len(replies') :
                           /\ replies'[i].type = "FW_INFO" => "firmware" \in vetted'
                           /\ replies'[i].type = "STATE" => "protocol" \in vetted'
                           /\ replies'[i].type = "DIAGNOSTICS" /\ replies'[i].data = "healthy"
                                => "sensor" \in vetted'
                      /\ \A i \in 1..Len(requests') : requests'[i] = "MARK_VALID" => vetted' = Checks
    BY DEF Vetted
  <2>1. OnTrial /\ PendingVerify
    BY <1>7
  <2>2. \A i \in 1..Len(requests') : requests'[i] = "MARK_VALID" => vetted' = Checks
    BY <1>3, <2>1 DEF WireInv, Vetted
  <2>3. ASSUME NEW i \in 1..Len(replies')
        PROVE  /\ replies'[i].type = "FW_INFO" => "firmware" \in vetted'
               /\ replies'[i].type = "STATE" => "protocol" \in vetted'
               /\ replies'[i].type = "DIAGNOSTICS" /\ replies'[i].data = "healthy"
                    => "sensor" \in vetted'
    <3>1. CASE i \in 1..Len(replies) /\ replies'[i] = replies[i]
      BY <2>1, <3>1 DEF WireInv, Vetted
    <3>2. CASE sent /\ i = Len(replies) + 1 /\ replies'[i] = reply
      BY <2>1, <3>2
    <3> QED
      BY <1>4, <3>1, <3>2
  <2> QED
    BY <2>2, <2>3
<1>9. resets' = resets /\ updates' = updates
  BY <1>1 DEF consoleVars
<1>10. DeviceTypes'
  BY <1>1, <1>3, <1>4, <1>9 DEF WireInv, DeviceTypes
<1> QED
  BY <1>1, <1>5, <1>6, <1>7, <1>8, <1>10 DEF WireInv, Steady

\* FW_INFO of the image that runs.
LEMMA FwInfoTyped ==
  ASSUME FlashTypeOK, version \in [Slots -> Versions]
  PROVE  FwInfo \in Infos /\ (FwInfo.pending <=> PendingVerify)
<1>1. /\ running \in Slots /\ boot \in Slots /\ version[running] \in Versions
      /\ Other(running) \in Slots
  BY DEF FlashTypeOK, Slots, Other
<1>2. version[Other(running)] \in Versions
  BY <1>1
<1>3. PendingVerify \in BOOLEAN
  BY DEF PendingVerify
<1>4. FwInfo.pending = PendingVerify
  BY DEF FwInfo
<1>5. FwInfo \in Infos
  BY <1>1, <1>2, <1>3 DEF FwInfo, Infos
<1> QED
  BY <1>4, <1>5

\* handleRequest(): whatever is asked, and whether or not the answer gets out.
LEMMA ServesKeeps ==
  ASSUME ConsoleInv, Serves
  PROVE  WireInv' /\ Steady /\ UNCHANGED consoleVars
<1> PICK sent \in BOOLEAN :
      \/ AnswerFwInfo(sent)
      \/ AnswerState(sent)
      \/ \E sensor \in Sensor : AnswerDiagnostics(sent, sensor)
      \/ Refuse(sent)
      \/ AnswerBegin(sent)
      \/ AnswerData(sent)
      \/ AnswerFinish(sent)
      \/ AnswerRevert(sent)
      \/ AnswerAbort(sent)
      \/ AnswerRestart(sent)
      \/ AnswerMarkValid(sent)
  BY DEF Serves
<1>1. /\ WireInv /\ FlashTypeOK /\ version \in [Slots -> Versions] /\ session \in BOOLEAN
      /\ rebooting \in BOOLEAN /\ vetted \subseteq Checks /\ job.version \in Versions
      /\ origin \in [Slots -> 0..MaxUpdates] /\ updates \in 0..MaxUpdates
  BY DEF ConsoleInv, WireInv, DeviceTypes, PageInv, PageTypes, Jobs
<1>2. UNCHANGED flashVars => FlashTypeOK' /\ PendingVerify' = PendingVerify
  BY <1>1 DEF flashVars, FlashTypeOK, PendingVerify
<1>3. \A type \in {"OK", "ERROR", "STATE"} : Plain(type) \in Replies /\ Plain(type).type = type
  BY DEF Plain, Replies
<1>4. CASE AnswerFwInfo(sent)
  <2> DEFINE reply == [type |-> "FW_INFO", data |-> FwInfo]
  <2>1. FwInfo \in Infos /\ (FwInfo.pending <=> PendingVerify)
    BY <1>1, FwInfoTyped
  <2>2. /\ reply \in Replies /\ reply.type = "FW_INFO" /\ reply.data = FwInfo
    BY <2>1 DEF Replies
  <2>3. /\ Answer("GET_FW_INFO", sent, reply) /\ UNCHANGED <<flashVars, version, origin, session, rebooting>>
        /\ vetted \subseteq vetted' /\ vetted' \subseteq Checks
        /\ sent /\ PendingVerify => "firmware" \in vetted'
    BY <1>1, <1>4 DEF AnswerFwInfo, Vet, Checks, imageVars
  <2> QED
    BY <1>1, <1>2, <2>1, <2>2, <2>3, AnswerKeeps
<1>5. CASE AnswerState(sent)
  <2>1. /\ Answer("GET_STATE", sent, Plain("STATE")) /\ UNCHANGED <<flashVars, version, origin, session, rebooting>>
        /\ vetted \subseteq vetted' /\ vetted' \subseteq Checks
        /\ sent /\ PendingVerify => "protocol" \in vetted'
    BY <1>1, <1>5 DEF AnswerState, Vet, Checks, imageVars
  <2> QED
    BY <1>1, <1>2, <1>3, <2>1, AnswerKeeps
<1>6. ASSUME NEW sensor \in Sensor, AnswerDiagnostics(sent, sensor)
      PROVE  WireInv' /\ Steady /\ UNCHANGED consoleVars
  <2> DEFINE reply == [type |-> "DIAGNOSTICS", data |-> sensor]
  <2>1. reply \in Replies /\ reply.type = "DIAGNOSTICS" /\ reply.data = sensor
    BY DEF Replies
  <2>2. /\ Answer("GET_DIAGNOSTICS", sent, reply) /\ UNCHANGED <<flashVars, version, origin, session, rebooting>>
        /\ vetted \subseteq vetted' /\ vetted' \subseteq Checks
        /\ sent /\ PendingVerify /\ sensor = "healthy" => "sensor" \in vetted'
    BY <1>1, <1>6 DEF AnswerDiagnostics, Vet, Checks, imageVars
  <2> QED
    BY <1>1, <1>2, <2>1, <2>2, AnswerKeeps
<1>7. CASE Refuse(sent)
  <2>1. PICK request : Answer(request, sent, Plain("ERROR"))
    BY <1>7 DEF Refuse
  <2>2. UNCHANGED <<flashVars, version, origin, rebooting, vetted>> /\ session' \in BOOLEAN
    BY <1>7 DEF Refuse, imageVars
  <2> QED
    BY <1>1, <1>2, <1>3, <2>1, <2>2, AnswerKeeps
<1>8. CASE AnswerBegin(sent) \/ AnswerData(sent)
  <2>1. /\ FlashTypeOK' /\ (PendingVerify' <=> PendingVerify)
        /\ UNCHANGED <<rebooting, vetted>> /\ session' \in BOOLEAN
        /\ version' \in [Slots -> Versions] /\ origin' \in [Slots -> 0..MaxUpdates]
    BY <1>1, <1>8, FlashKept DEF AnswerBegin, AnswerData, imageVars
  <2>2. PICK request : Answer(request, sent, Plain("OK"))
    BY <1>8 DEF AnswerBegin, AnswerData
  <2> QED
    BY <1>1, <1>3, <2>1, <2>2, AnswerKeeps
<1>9. CASE AnswerFinish(sent)
  <2>1. /\ FlashTypeOK' /\ (PendingVerify' <=> PendingVerify)
        /\ vetted' = vetted /\ session' \in BOOLEAN /\ rebooting' \in BOOLEAN
    BY <1>1, <1>9, FlashKept DEF AnswerFinish
  <2>2. UNCHANGED <<version, origin>> /\ Answer("OTA_FINISH", sent, Plain("OK"))
    BY <1>1, <1>9 DEF AnswerFinish, imageVars
  <2> QED
    BY <1>1, <1>3, <2>1, <2>2, AnswerKeeps
<1>10. CASE AnswerRevert(sent)
  <2>1. Other(running) \in Slots /\ Other(running) # running
    BY <1>1 DEF FlashTypeOK, Slots, Other
  <2>2. /\ FlashTypeOK' /\ (PendingVerify' <=> PendingVerify)
        /\ UNCHANGED <<version, origin, vetted>> /\ session' \in BOOLEAN /\ rebooting' \in BOOLEAN
        /\ Answer("REVERT", sent, Plain("OK"))
    BY <1>1, <1>10, <2>1, FlashKept DEF AnswerRevert, imageVars
  <2> QED
    BY <1>1, <1>3, <2>2, AnswerKeeps
<1>11. CASE AnswerAbort(sent) \/ AnswerRestart(sent)
  <2>1. /\ UNCHANGED <<flashVars, version, origin, vetted>> /\ session' \in BOOLEAN /\ rebooting' \in BOOLEAN
    BY <1>1, <1>11 DEF AnswerAbort, AnswerRestart, imageVars
  <2>2. PICK request : Answer(request, sent, Plain("OK"))
    BY <1>11 DEF AnswerAbort, AnswerRestart
  <2> QED
    BY <1>1, <1>2, <1>3, <2>1, <2>2, AnswerKeeps
<1>12. CASE AnswerMarkValid(sent)
  <2>1. /\ FlashTypeOK' /\ ~PendingVerify' /\ UNCHANGED <<version, origin, session, rebooting, vetted>>
    BY <1>1, <1>12, FlashKept DEF AnswerMarkValid, imageVars
  <2>2. PICK request : Answer(request, sent, Plain("OK"))
    BY <1>12 DEF AnswerMarkValid
  <2> QED
    BY <1>1, <1>3, <2>1, <2>2, AnswerKeeps
<1> QED
  BY <1>4, <1>5, <1>6, <1>7, <1>8, <1>9, <1>10, <1>11, <1>12

\* The firmware stops, or the cable is pulled: what the device was asked is lost.
LEMMA LinkGoes ==
  ASSUME ConsoleInv, FlashTypeOK',
         link' = IF link = "open" THEN "dead" ELSE link, requests' = <<>>, replies' = replies,
         version' = version, origin' = origin, session' \in BOOLEAN, up' \in BOOLEAN, rebooting' \in BOOLEAN,
         resets' \in 0..MaxResets, updates' = updates, vetted' \subseteq Checks,
         UNCHANGED <<waiting, txn, pc, again, updVars, seeking>>
  PROVE  ConsoleInv'
<1>1. link \in {"none", "open", "dead"} /\ link' # "open" /\ (link' = "none" <=> link = "none")
      /\ link' \in {"none", "open", "dead"}
  BY DEF ConsoleInv, PageInv, PageTypes
<1>2. Steady
  BY <1>1 DEF Steady, NotOnTrial, OnTrial
<1>3. PageInv'
  BY <1>2, PageUnchanged DEF ConsoleInv, updVars
<1>4. DeviceTypes'
  BY DEF ConsoleInv, WireInv, DeviceTypes
<1>5. InfoOrder' /\ Vetted'
  BY <1>1 DEF ConsoleInv, WireInv, InfoOrder, Vetted, OnTrial
<1> QED
  BY <1>1, <1>3, <1>4, <1>5 DEF ConsoleInv, WireInv

LEMMA DeviceKeeps ==
  ASSUME ConsoleInv, Device \/ Crashes \/ LinkDrops
  PROVE  ConsoleInv'
<1>1. /\ FlashTypeOK /\ resets \in 0..MaxResets /\ session \in BOOLEAN /\ up \in BOOLEAN
      /\ rebooting \in BOOLEAN /\ vetted \subseteq Checks /\ version \in [Slots -> Versions]
      /\ origin \in [Slots -> 0..MaxUpdates]
      /\ MaxResets \in Nat
  BY LimitsAssumption DEF ConsoleInv, WireInv, DeviceTypes
<1>2. UNCHANGED flashVars => FlashTypeOK'
  BY <1>1 DEF flashVars, FlashTypeOK
<1>3. CASE Serves
  <2>1. WireInv' /\ Steady /\ UNCHANGED consoleVars
    BY <1>3, ServesKeeps
  <2> QED
    BY <2>1, PageUnchanged DEF ConsoleInv, consoleVars, updVars
<1>4. CASE Restarts \/ RollsBack \/ Crashes
  <2>1. FlashTypeOK' /\ resets' \in 0..MaxResets /\ Stop
    BY <1>1, <1>2, <1>4, FlashKept DEF Restarts, RollsBack, Crashes
  <2> QED
    BY <2>1, LinkGoes DEF Stop, imageVars
<1>5. CASE LinkDrops
  <2>1. FlashTypeOK' /\ resets' \in 0..MaxResets
    BY <1>1, <1>2, <1>5 DEF LinkDrops, deviceVars, imageVars
  <2> QED
    BY <1>1, <1>5, <2>1, LinkGoes DEF LinkDrops, deviceVars, imageVars
<1>6. CASE Boots
  <2>1. /\ link # "open" /\ FlashTypeOK' /\ up' = TRUE
        /\ UNCHANGED <<version, origin, session, rebooting, linkVars, consoleVars, vetted>>
    BY <1>1, <1>6, FlashKept DEF Boots, imageVars, ConsoleInv, WireInv
  <2>2. Steady
    BY <2>1 DEF Steady, NotOnTrial, OnTrial, linkVars, ConsoleInv, PageInv, PageTypes
  <2>3. PageInv'
    BY <2>1, <2>2, PageUnchanged DEF ConsoleInv, consoleVars, updVars
  <2>4. DeviceTypes'
    BY <2>1 DEF ConsoleInv, WireInv, DeviceTypes, linkVars, consoleVars
  <2>5. /\ link' = link /\ requests' = requests /\ replies' = replies
    BY <2>1 DEF linkVars
  <2>6. InfoOrder' /\ Vetted'
    BY <2>1, <2>5 DEF ConsoleInv, WireInv, InfoOrder, Vetted, OnTrial
  <2> QED
    BY <2>1, <2>3, <2>4, <2>5, <2>6 DEF ConsoleInv, WireInv
<1> QED
  BY <1>3, <1>4, <1>5, <1>6 DEF Device

-----------------------------------------------------------------------------
\* A flow that is not at a request has none queued and none out.
LEMMA NotAsking ==
  ASSUME PageInv, NEW f \in Flows, pc[f] \notin Asking
  PROVE  Free(f) /\ txn.by # f
BY DEF PageInv, Queued, Free, Flows

\* The flow whose turn it is sends its request.
LEMMA SendsKeeps ==
  ASSUME ConsoleInv, NEW f \in Flows, Sends(f)
  PROVE  ConsoleInv'
<1>1. /\ txn = NoTxn /\ txn.by = "none" /\ waiting # <<>> /\ waiting \in Seq(Flows) /\ Head(waiting) = f
      /\ link # "none" /\ waiting' = Tail(waiting) /\ PageStep /\ replies' = replies
      /\ OnTheLink(Asks[pc[f]]) /\ UNCHANGED <<pc, again, phase, job, said, seeking>>
      /\ txn' = [by |-> f, left |-> Retries(Asks[pc[f]])]
  BY DEF Sends, PageStep, ConsoleInv, PageInv, PageTypes, Here, NoTxn, updVars
<1>2. /\ Len(waiting) \in Nat \ {0} /\ Len(waiting') = Len(waiting) - 1 /\ waiting' \in Seq(Flows)
      /\ \A i \in 1..Len(waiting') : waiting'[i] = waiting[i + 1] /\ i + 1 \in 1..Len(waiting)
      /\ waiting[1] = f /\ 1 \in 1..Len(waiting)
  BY <1>1, Tailed
<1>3. /\ \A i \in 1..Len(waiting) : pc[waiting[i]] \in Asking
      /\ \A i, j \in 1..Len(waiting) : waiting[i] = waiting[j] => i = j
  BY DEF ConsoleInv, PageInv, Queued
<1>4. pc[f] \in Asking /\ \A i \in 1..Len(waiting') : waiting'[i] # f
  <2>1. ASSUME NEW i \in 1..Len(waiting') PROVE waiting'[i] # f
    BY <1>2, <1>3
  <2> QED
    BY <1>2, <1>3, <2>1
<1>5. WireInv' /\ Stable
  <2>1. requests' = requests \/ MaySend
    BY <1>1, <1>4, AsksFor DEF ConsoleInv
  <2> QED
    BY <1>1, <2>1, PageWire DEF ConsoleInv
<1>6. txn' \in [by : Flows \cup {"none"}, left : 0..1] /\ txn'.by = f
  BY <1>1 DEF Retries
<1>7. PageTypes' /\ OwnSteps'
  BY <1>1, <1>2, <1>5, <1>6 DEF ConsoleInv, PageInv, PageTypes, OwnSteps, Stable
<1>8. Queued'
  <2>1. ASSUME NEW i \in 1..Len(waiting'), NEW j \in 1..Len(waiting'), waiting'[i] = waiting'[j]
        PROVE  i = j
    <3>1. /\ i + 1 \in 1..Len(waiting) /\ j + 1 \in 1..Len(waiting)
          /\ waiting[i + 1] = waiting[j + 1]
      BY <1>2, <2>1
    <3>2. i + 1 = j + 1
      BY <1>3, <3>1
    <3> QED
      BY <1>2, <3>2
  <2> QED
    BY <1>1, <1>2, <1>3, <1>4, <1>6, <2>1 DEF Queued, Flows
<1>9. Linked'
  BY <1>1, <1>5 DEF ConsoleInv, PageInv, Linked, Stable
<1>10. ConnFirst'
  <2>1. pc.conn = "info" => \E i \in 1..Len(waiting) : waiting[i] = "conn"
    BY <1>1 DEF ConsoleInv, PageInv, ConnFirst
  <2>2. pc.conn = "info" =>
           f = "conn" \/ \E i \in 1..Len(waiting') : waiting'[i] = "conn"
    <3> SUFFICES ASSUME pc.conn = "info", f # "conn"
                 PROVE  \E i \in 1..Len(waiting') : waiting'[i] = "conn"
      OBVIOUS
    <3>1. PICK k \in 1..Len(waiting) : waiting[k] = "conn"
      BY <2>1
    <3>2. k # 1 /\ k - 1 \in 1..Len(waiting')
      BY <1>2, <3>1
    <3>3. waiting'[k - 1] = "conn"
      BY <1>2, <3>1, <3>2
    <3> QED
      BY <3>2, <3>3
  <2>3. f = "main" /\ pc.main \in Uploading => pc.conn = "idle"
    <3> SUFFICES ASSUME f = "main", pc.main \in Uploading PROVE pc.conn = "idle"
      OBVIOUS
    <3>1. pc.conn # "discover"
      BY DEF ConsoleInv, PageInv, ConnFirst
    <3>2. \A j \in 1..Len(waiting) : waiting[j] = "conn" => j < 1
      BY <1>2 DEF ConsoleInv, PageInv, ConnFirst
    <3>3. pc.conn # "info"
      BY <2>1, <3>2, <1>2
    <3> QED
      BY <3>1, <3>3 DEF ConsoleInv, PageInv, OwnSteps, StepsOf, Flows
  <2>4. pc.main \in Uploading =>
           \A i, j \in 1..Len(waiting') : waiting'[i] = "main" /\ waiting'[j] = "conn" => j < i
    <3> SUFFICES ASSUME pc.main \in Uploading, NEW i \in 1..Len(waiting'), NEW j \in 1..Len(waiting'),
                        waiting'[i] = "main", waiting'[j] = "conn"
                 PROVE  j < i
      OBVIOUS
    <3>1. j + 1 < i + 1
      BY <1>2 DEF ConsoleInv, PageInv, ConnFirst
    <3> QED
      BY <1>2, <3>1
  <2> QED
    BY <1>1, <1>5, <1>6, <2>2, <2>3, <2>4 DEF ConsoleInv, PageInv, ConnFirst, Stable
<1>11. MainPhase' /\ ReportPhase' /\ Sleeps' /\ ConfirmAlone'
  BY <1>1, <1>5 DEF ConsoleInv, PageInv, MainPhase, ReportPhase, Sleeps, ConfirmAlone, Stable
<1>12. Settled' /\ Passed'
  BY <1>1, <1>5 DEF ConsoleInv, PageInv, Settled, Passed, Stable
<1> QED
  BY <1>5, <1>7, <1>8, <1>9, <1>10, <1>11, <1>12 DEF ConsoleInv, PageInv

LEMMA StableIsSteady == PageInv /\ Stable => Steady
BY DEF Stable, Steady, PageInv, PageTypes

\* A reply, or the timeout that stands for it, ends an await; or the request goes
\* out once more.
LEMMA RetriedKeeps ==
  ASSUME ConsoleInv, Retried, PageStep,
         replies' = replies \/ (replies # <<>> /\ replies' = Tail(replies))
  PROVE  ConsoleInv'
<1>1. txn.by \in Flows /\ pc[txn.by] \in Asking
  BY DEF Retried, ConsoleInv, PageInv, PageTypes, Queued
<1>2. WireInv' /\ Stable
  <2>1. requests' = requests \/ MaySend
    BY <1>1, AsksFor DEF Retried, ConsoleInv
  <2> QED
    BY <2>1, PageWire DEF ConsoleInv
<1>3. PageInv'
  BY <1>2, StableIsSteady, PageUnchanged DEF ConsoleInv, Retried, updVars
<1> QED
  BY <1>2, <1>3 DEF ConsoleInv

LEMMA AwaitEnds ==
  ASSUME ConsoleInv, PageStep, NEW how \in {"ok", "failed", "timeout"}, NEW data,
         replies' = replies \/ (replies # <<>> /\ replies' = Tail(replies)),
         requests' = requests, txn # NoTxn, txn' = NoTxn, link # "none",
         how = "ok" => Tells(Expected(Asks[pc[txn.by]]), data),
         Resumes(txn.by, how, data)
  PROVE  ConsoleInv'
<1>1. txn.by \in Flows /\ pc[txn.by] \in Asking /\ Free(txn.by)
  <2>1. txn.by # "none"
    BY DEF ConsoleInv, PageInv, PageTypes, Queued, NoTxn
  <2> QED
    BY <2>1 DEF ConsoleInv, PageInv, PageTypes, Queued, Free
<1>2. WireInv' /\ Stable
  BY PageWire DEF ConsoleInv
<1>3. Resumed(txn.by, how, data)
  BY <1>1, <1>2 DEF Resumed
<1>4. PageInv'
  BY <1>1, <1>3, ResumesKeeps DEF ConsoleInv
<1> QED
  BY <1>2, <1>4 DEF ConsoleInv

LEMMA ReceivesKeeps == ConsoleInv /\ Receives => ConsoleInv'
<1> SUFFICES ASSUME ConsoleInv, Receives PROVE ConsoleInv'
  OBVIOUS
<1>1. /\ replies # <<>> /\ replies' = Tail(replies) /\ PageStep /\ link # "none"
      /\ txn # NoTxn /\ Head(replies).type \in {Expected(Asks[pc[txn.by]]), "ERROR"}
  BY DEF Receives, Here, Answers, PageStep
<1>2. CASE Head(replies).type # "ERROR"
  <2>1. Tells(Expected(Asks[pc[txn.by]]), Head(replies).data)
    BY <1>1, <1>2, HeadTells DEF ConsoleInv
  <2> QED
    BY <1>1, <1>2, <2>1, AwaitEnds DEF Receives
<1>3. CASE Head(replies).type = "ERROR" /\ txn.left > 0
  BY <1>1, <1>3, RetriedKeeps DEF Receives
<1>4. CASE Head(replies).type = "ERROR" /\ ~(txn.left > 0)
  BY <1>1, <1>4, AwaitEnds DEF Receives
<1> QED
  BY <1>2, <1>3, <1>4

LEMMA TimesOutKeeps == ConsoleInv /\ TimesOut => ConsoleInv'
<1> SUFFICES ASSUME ConsoleInv, TimesOut PROVE ConsoleInv'
  OBVIOUS
<1>1. PageStep /\ replies' = replies /\ txn # NoTxn /\ link # "none"
  BY DEF TimesOut, PageStep, Here
<1>2. CASE Retried
  BY <1>1, <1>2, RetriedKeeps
<1>3. CASE Resumes(txn.by, "timeout", NoData) /\ txn' = NoTxn /\ UNCHANGED requests
  BY <1>1, <1>3, AwaitEnds
<1> QED
  BY <1>2, <1>3 DEF TimesOut

LEMMA UnsolicitedKeeps == ConsoleInv /\ Unsolicited => ConsoleInv'
<1> SUFFICES ASSUME ConsoleInv, Unsolicited PROVE ConsoleInv'
  OBVIOUS
<1>1. PageStep /\ replies # <<>> /\ replies' = Tail(replies) /\ requests' = requests
  BY DEF Unsolicited, PageStep
<1>2. WireInv' /\ Stable
  BY <1>1, PageWire DEF ConsoleInv
<1>3. PageInv'
  BY <1>2, StableIsSteady, PageUnchanged DEF ConsoleInv, Unsolicited, updVars
<1> QED
  BY <1>2, <1>3 DEF ConsoleInv

\* The awaits on a link that went.
LEMMA LostKeeps ==
  ASSUME ConsoleInv, NEW f \in Flows, Lost(f)
  PROVE  ConsoleInv'
<1>1. /\ link = "none" /\ pc[f] \in Asking /\ PageStep /\ replies' = replies /\ requests' = requests
      /\ txn' = txn /\ txn = NoTxn /\ waiting = <<>> /\ Resumes(f, "lost", NoData)
  BY DEF Lost, PageStep, linkVars, ConsoleInv, PageInv, Linked
<1>2. WireInv' /\ Stable
  BY <1>1, PageWire DEF ConsoleInv
<1>3. Resumed(f, "lost", NoData)
  BY <1>1, <1>2 DEF Resumed, Free
<1> QED
  BY <1>1, <1>2, <1>3, ResumesKeeps DEF ConsoleInv

-----------------------------------------------------------------------------
\* Nothing of the device or the link changes, though an update may be counted.
Quiet == UNCHANGED <<deviceVars, linkVars, txn, resets, vetted>> /\ updates' \in 0..MaxUpdates

LEMMA QuietKeeps ==
  ASSUME ConsoleInv, Quiet
  PROVE  WireInv' /\ Stable
<1>1. /\ UNCHANGED <<image, state, boot, running, version, origin, session, up, rebooting, resets, vetted>>
      /\ link' = link /\ requests' = requests /\ replies' = replies /\ updates' \in 0..MaxUpdates
      /\ PendingVerify' = PendingVerify
  BY DEF Quiet, deviceVars, imageVars, flashVars, linkVars, PendingVerify
<1>2. DeviceTypes'
  BY <1>1 DEF ConsoleInv, WireInv, DeviceTypes, FlashTypeOK
<1>3. InfoOrder' /\ Vetted'
  BY <1>1 DEF ConsoleInv, WireInv, InfoOrder, Vetted, OnTrial
<1> QED
  BY <1>1, <1>2, <1>3 DEF ConsoleInv, WireInv, Stable, NotOnTrial, OnTrial

LEMMA QuietUpdates == ConsoleInv /\ updates' = updates => updates' \in 0..MaxUpdates
BY DEF ConsoleInv, WireInv, DeviceTypes

\* Timers of the page.
LEMMA TimersKeep ==
  ASSUME ConsoleInv, DropSeen \/ DropWaitOver \/ Wakes \/ DiscoveryOver \/ GivesUp
  PROVE  ConsoleInv'
<1>1. Quiet
  BY QuietUpdates DEF DropSeen, DropWaitOver, Wakes, DiscoveryOver, GivesUp, Quiet, historyVars
<1>2. WireInv' /\ Stable /\ link' = link /\ txn' = txn /\ PageInv
  BY <1>1, QuietKeeps DEF Quiet, linkVars, ConsoleInv
<1>3. /\ pc \in [Flows -> Steps] /\ again \in 0..3 /\ job \in Jobs /\ said \in Verdicts
      /\ phase \in Phases /\ (Here <=> link # "none")
      /\ "main" \in Flows /\ "conn" \in Flows /\ "report" \in Flows
  BY DEF ConsoleInv, PageInv, PageTypes, Flows, Here
<1>4. CASE DropSeen \/ DropWaitOver
  <2>1. PICK step \in {"idle", "reread"} :
          /\ Goes("main", step) /\ pc.main = "drop_wait" /\ UNCHANGED <<again, phase, job, said>>
          /\ step = "reread" => link # "none"
          /\ seeking' = seeking \/ (link = "none" /\ seeking' \in BOOLEAN)
    BY <1>3, <1>4 DEF DropSeen, DropWaitOver, updVars
  <2>2. /\ pc'.main = step /\ pc'.conn = pc.conn /\ pc'.report = pc.report
        /\ pc'.confirm = pc.confirm
    BY <1>3, <2>1 DEF Goes, Flows
  <2>3. /\ MainPhase' /\ ReportPhase' /\ Sleeps' /\ ConfirmAlone'
    BY <1>2, <2>1, <2>2 DEF PageInv, MainPhase, ReportPhase, Sleeps, ConfirmAlone, Uploading
  <2>4. Settled' /\ Passed'
    BY <1>2, <2>1, <2>2 DEF PageInv, Settled, Passed, Stable
  <2>5. Free("main") /\ txn.by # "main"
    BY <1>2, <1>3, <2>1, NotAsking, AskingIs
  <2>6. /\ step \in StepsOf["main"] /\ step \notin Uploading
        /\ link = "none" => step \notin Asking \cup {"ask"} /\ phase' # "switched_no_restart"
    BY <1>2, <2>1, AskingIs DEF StepsOf, Uploading, PageInv, Linked
  <2>7. PageInv'
    BY <1>2, <1>3, <2>1, <2>3, <2>4, <2>5, <2>6, GoesKeeps
  <2> QED
    BY <1>2, <2>7 DEF ConsoleInv
<1>5. CASE Wakes
  <2>1. PICK step \in {"idle", "retry"} :
          /\ Goes("report", step) /\ pc.report = "sleep" /\ UNCHANGED <<job, seeking>>
          /\ said' \in Verdicts /\ again' \in 0..3
          /\ step = "retry" => link # "none" /\ phase' = phase
          /\ step = "idle" => link = "none" /\ phase' = "done"
    BY <1>3, <1>5 DEF Wakes, Ends, Verdicts, ConsoleInv, PageInv, Sleeps
  <2>2. /\ pc'.main = pc.main /\ pc'.conn = pc.conn /\ pc'.report = step
        /\ pc'.confirm = pc.confirm
    BY <1>3, <2>1 DEF Goes, Flows
  <2>3. phase \in {"rebooting", "switched_no_restart"} /\ pc.confirm = "idle"
    BY <1>2, <2>1 DEF PageInv, ReportPhase, ConfirmAlone
  <2>4. /\ MainPhase' /\ ReportPhase' /\ Sleeps' /\ ConfirmAlone'
    BY <1>2, <2>1, <2>2, <2>3 DEF PageInv, MainPhase, ReportPhase, Sleeps, ConfirmAlone, Uploading
  <2>5. Settled' /\ Passed'
    BY <1>2, <2>1, <2>2, <2>3 DEF PageInv, Settled, Passed, Stable
  <2>6. Free("report") /\ txn.by # "report"
    BY <1>2, <1>3, <2>1, NotAsking, AskingIs
  <2>7. /\ step \in StepsOf["report"] /\ phase' \in Phases
        /\ link = "none" => step \notin Asking \cup {"ask"} /\ phase' # "switched_no_restart"
    BY <1>2, <1>3, <2>1, AskingIs DEF StepsOf, Phases
  <2>8. PageInv'
    BY <1>2, <1>3, <2>1, <2>4, <2>5, <2>6, <2>7, GoesKeeps
  <2> QED
    BY <1>2, <2>8 DEF ConsoleInv
<1>6. CASE DiscoveryOver
  <2>1. /\ Goes("conn", "info") /\ pc.conn = "discover" /\ link # "none"
        /\ UNCHANGED <<again, phase, job, said, seeking>>
    BY <1>3, <1>6 DEF DiscoveryOver, updVars
  <2>2. /\ pc'.main = pc.main /\ pc'.conn = "info" /\ pc'.report = pc.report
        /\ pc'.confirm = pc.confirm
    BY <1>3, <2>1 DEF Goes, Flows
  <2>3. /\ MainPhase' /\ ReportPhase' /\ Sleeps' /\ ConfirmAlone'
    BY <1>2, <2>1, <2>2 DEF PageInv, MainPhase, ReportPhase, Sleeps, ConfirmAlone, Uploading
  <2>4. Settled' /\ Passed'
    BY <1>2, <2>1, <2>2 DEF PageInv, Settled, Passed, Stable
  <2>5. Free("conn") /\ txn.by # "conn" /\ "info" \in StepsOf["conn"]
    BY <1>2, <1>3, <2>1, NotAsking, AskingIs DEF StepsOf
  <2>6. PageInv'
    BY <1>2, <1>3, <2>1, <2>3, <2>4, <2>5, GoesKeeps
  <2> QED
    BY <1>2, <2>6 DEF ConsoleInv
<1>7. CASE GivesUp
  <2>1. /\ UNCHANGED <<waiting, pc, again, phase, job>> /\ said' \in Verdicts
        /\ seeking' = FALSE /\ link = "none"
    BY <1>3, <1>7 DEF GivesUp, Verdicts
  <2>2. /\ PageTypes' /\ OwnSteps' /\ Queued' /\ Linked' /\ ConnFirst'
    <3>1. PageTypes' /\ OwnSteps' /\ Linked'
      BY <1>2, <2>1 DEF PageInv, PageTypes, OwnSteps, Linked
    <3>2. Queued'
      BY <1>2, <2>1 DEF PageInv, Queued
    <3>3. ConnFirst'
      BY <1>2, <2>1 DEF PageInv, ConnFirst
    <3> QED
      BY <3>1, <3>2, <3>3
  <2>3. /\ MainPhase' /\ ReportPhase' /\ Sleeps' /\ ConfirmAlone' /\ Settled' /\ Passed'
    BY <1>2, <2>1
       DEF PageInv, MainPhase, ReportPhase, Sleeps, ConfirmAlone, Settled, Passed, Stable
  <2> QED
    BY <1>2, <2>2, <2>3 DEF ConsoleInv, PageInv
<1> QED
  BY <1>4, <1>5, <1>6, <1>7

\* The transport goes, with all that was queued, out or on its way to the page.
LEMMA TransportGoneKeeps == ConsoleInv /\ TransportGone => ConsoleInv'
<1> SUFFICES ASSUME ConsoleInv, TransportGone PROVE ConsoleInv'
  OBVIOUS
<1>1. /\ link = "dead" /\ link' = "none" /\ replies' = <<>> /\ waiting' = <<>> /\ txn' = NoTxn
      /\ UNCHANGED <<image, state, boot, running, version, origin, session, up, rebooting>>
      /\ UNCHANGED <<requests, again, job, resets, updates, vetted>>
      /\ PageInv /\ WireInv /\ ~seeking /\ requests = <<>>
  BY DEF TransportGone, deviceVars, imageVars, flashVars, historyVars, ConsoleInv, PageInv, Linked, WireInv
<1>2. /\ pc \in [Flows -> Steps] /\ pc' \in [Flows -> Steps]
      /\ \A f \in Flows : pc'[f] = pc[f] \/ pc'[f] = "idle"
      /\ pc'.conn # "discover" /\ pc'.main # "ask"
      /\ pc'.report = pc.report /\ pc'.confirm = pc.confirm
  <2>1. pc \in [Flows -> Steps]
    BY <1>1 DEF PageInv, PageTypes
  <2> QED
    BY <2>1 DEF TransportGone, Flows, Steps
<1>3. /\ \/ phase' = phase /\ phase \notin {"confirming", "waiting_rollback", "switched_no_restart"}
         \/ phase' = "rebooting" /\ phase \in {"confirming", "waiting_rollback", "switched_no_restart"}
      /\ said' \in Verdicts /\ seeking' \in BOOLEAN
  BY <1>1 DEF TransportGone, PageInv, PageTypes, Verdicts
<1>4. PageTypes'
  BY <1>1, <1>2, <1>3 DEF PageInv, PageTypes, Phases, NoTxn, Flows
<1>5. OwnSteps'
  BY <1>1, <1>2 DEF PageInv, OwnSteps, StepsOf, Flows
<1>6. Queued' /\ Linked'
  BY <1>1, <1>2, <1>3 DEF Queued, Linked, NoTxn
<1>7. ConnFirst'
  <2>1. (pc'.main = pc.main \/ pc'.main = "idle") /\ (pc'.conn = pc.conn \/ pc'.conn = "idle")
    BY <1>2 DEF Flows
  <2> QED
    BY <1>1, <1>2, <2>1 DEF PageInv, ConnFirst, NoTxn, Uploading
<1>8. MainPhase' /\ ReportPhase' /\ Sleeps' /\ ConfirmAlone'
  <2>1. pc'.main = pc.main \/ pc'.main = "idle"
    BY <1>2 DEF Flows
  <2> QED
    BY <1>1, <1>2, <1>3, <2>1
       DEF PageInv, MainPhase, ReportPhase, Sleeps, ConfirmAlone, Uploading
<1>9. Settled' /\ Passed'
  BY <1>1 DEF Settled, Passed, OnTrial
<1>10. DeviceTypes'
  BY <1>1 DEF WireInv, DeviceTypes, FlashTypeOK
<1>11. InfoOrder' /\ Vetted'
  BY <1>1 DEF InfoOrder, Vetted, OnTrial
<1> QED
  BY <1>1, <1>4, <1>5, <1>6, <1>7, <1>8, <1>9, <1>10, <1>11 DEF ConsoleInv, PageInv, WireInv

\* A new link finds no request, no reply, and no check that goes on.
LEMMA ConnectsKeeps == ConsoleInv /\ ~MustRun /\ Connects => ConsoleInv'
<1> SUFFICES ASSUME ConsoleInv, ~MustRun, Connects PROVE ConsoleInv'
  OBVIOUS
<1>1. /\ link = "none" /\ up /\ link' = "open" /\ replies = <<>> /\ waiting = <<>> /\ txn = NoTxn
      /\ UNCHANGED <<image, state, boot, running, version, origin, session, up, rebooting>>
      /\ UNCHANGED <<requests, replies, txn, again, phase, job, said, resets, updates, vetted>>
      /\ PageInv /\ WireInv /\ seeking' = FALSE /\ requests = <<>>
      /\ phase # "switched_no_restart" /\ Goes("conn", "discover")
  BY DEF Connects, deviceVars, imageVars, flashVars, historyVars, updVars, ConsoleInv, PageInv, Linked, WireInv
<1>2. \A f \in Flows : pc[f] \notin Asking
  BY <1>1 DEF MustRun, Here
<1>3. /\ pc \in [Flows -> Steps] /\ pc' = [pc EXCEPT !.conn = "discover"] /\ waiting' = <<>>
      /\ "discover" \in Steps
  BY <1>1, AskingIs DEF Goes, PageInv, PageTypes, Steps
<1>4. /\ pc' \in [Flows -> Steps] /\ pc'.main = pc.main /\ pc'.conn = "discover"
      /\ pc'.report = pc.report /\ pc'.confirm = pc.confirm /\ pc'.hand = pc.hand
  BY <1>3 DEF Flows
<1>5. pc.confirm = "idle" /\ pc.main \notin Uploading \cup {"restart", "plan", "ask"}
  BY <1>1, <1>2, AskingIs DEF PageInv, OwnSteps, StepsOf, Flows, Uploading, Linked
<1>6. PageTypes' /\ Linked'
  BY <1>1, <1>3, <1>4 DEF PageInv, PageTypes, Linked
<1>7. OwnSteps'
  BY <1>1, <1>3 DEF PageInv, OwnSteps, StepsOf, Flows
<1>8. Queued' /\ ConnFirst'
  BY <1>1, <1>3, <1>4, <1>5 DEF Queued, ConnFirst, NoTxn, Uploading
<1>9. MainPhase' /\ ReportPhase' /\ Sleeps' /\ ConfirmAlone' /\ Settled' /\ Passed'
  BY <1>1, <1>4, <1>5
     DEF PageInv, MainPhase, ReportPhase, Sleeps, ConfirmAlone, Settled, Passed, Uploading
<1>10. DeviceTypes'
  BY <1>1 DEF WireInv, DeviceTypes, FlashTypeOK
<1>11. InfoOrder' /\ Vetted' /\ (~up' => link' # "open")
  BY <1>1 DEF InfoOrder, Vetted
<1> QED
  BY <1>1, <1>6, <1>7, <1>8, <1>9, <1>10, <1>11 DEF ConsoleInv, PageInv, WireInv

\* What a person does with the page.
LEMMA PersonKeeps ==
  ASSUME ConsoleInv, ~MustRun, Person
  PROVE  ConsoleInv'
<1>1. /\ pc \in [Flows -> Steps] /\ again \in 0..3 /\ job \in Jobs /\ said \in Verdicts
      /\ phase \in Phases /\ (Here <=> link # "none") /\ updates \in 0..MaxUpdates /\ MaxUpdates \in Nat
      /\ "main" \in Flows /\ "hand" \in Flows /\ PageInv
      /\ link = "none" => pc.main # "ask"
  BY LimitsAssumption
     DEF ConsoleInv, PageInv, PageTypes, WireInv, DeviceTypes, Flows, Here, Linked
<1>2. CASE PersonConnects
  BY <1>2, ConnectsKeeps DEF PersonConnects
<1>3. CASE PressMarkValid
  <2>1. /\ Goes("hand", "hand") /\ pc.hand = "idle" /\ link # "none"
        /\ UNCHANGED <<again, phase, job, said, seeking>>
    BY <1>1, <1>3 DEF PressMarkValid, updVars
  <2>2. Quiet
    BY <1>3, QuietUpdates DEF PressMarkValid, Quiet, historyVars
  <2>3. WireInv' /\ Stable /\ link' = link /\ txn' = txn
    BY <2>2, QuietKeeps DEF Quiet, linkVars
  <2>4. /\ pc'.main = pc.main /\ pc'.conn = pc.conn /\ pc'.report = pc.report
        /\ pc'.confirm = pc.confirm
    BY <1>1, <2>1 DEF Goes, Flows
  <2>5. MainPhase' /\ ReportPhase' /\ Sleeps' /\ ConfirmAlone'
    BY <1>1, <2>1, <2>3, <2>4 DEF PageInv, MainPhase, ReportPhase, Sleeps, ConfirmAlone
  <2>6. Settled' /\ Passed'
    BY <1>1, <2>1, <2>3, <2>4 DEF PageInv, Settled, Passed, Stable
  <2>7. Free("hand") /\ txn.by # "hand" /\ "hand" \in StepsOf["hand"]
    BY <1>1, <2>1, NotAsking, AskingIs DEF StepsOf
  <2>8. PageInv'
    BY <1>1, <2>1, <2>3, <2>5, <2>6, <2>7, GoesKeeps
  <2> QED
    BY <2>3, <2>8 DEF ConsoleInv
<1>4. CASE RestartNow \/ Agrees \/ Declines \/ \E kind \in {"flash", "revert"} : StartsUpdate(kind)
  <2>1. PICK step \in {"restart", "begin", "revert", "idle", "plan"} :
          /\ Goes("main", step) /\ UNCHANGED <<again, seeking>> /\ job' \in Jobs /\ said' \in Verdicts
          /\ \/ /\ step = "restart" /\ pc.main = "idle" /\ pc.confirm = "idle" /\ link # "none"
                /\ phase = "switched_no_restart" /\ phase' = "rebooting"
             \/ /\ step \in {"begin", "revert"} /\ pc.main = "ask" /\ pc.conn # "discover"
                /\ phase' = "running"
             \/ step = "idle" /\ pc.main = "ask" /\ phase' = phase
             \/ /\ step = "plan" /\ pc.main = "idle" /\ pc.confirm = "idle" /\ link # "none"
                /\ phase \in {"none", "done"} /\ phase' = "none"
    <3>1. CASE RestartNow
      BY <1>1, <3>1 DEF RestartNow, Busy, Verdicts
    <3>2. CASE Agrees
      BY <1>1, <3>2 DEF Agrees
    <3>3. CASE Declines
      BY <1>1, <3>3 DEF Declines, updVars
    <3>4. ASSUME NEW kind \in {"flash", "revert"}, StartsUpdate(kind)
          PROVE  /\ Goes("main", "plan") /\ UNCHANGED <<again, seeking>>
                 /\ job' \in Jobs /\ said' \in Verdicts
                 /\ pc.main = "idle" /\ pc.confirm = "idle" /\ link # "none"
                 /\ phase \in {"none", "done"} /\ phase' = "none"
      BY <1>1, <3>4 DEF StartsUpdate, Busy, Verdicts, Jobs
    <3> QED
      BY <1>4, <3>1, <3>2, <3>3, <3>4
  <2>2. Quiet
    <3>1. CASE RestartNow \/ Agrees \/ Declines
      BY <3>1, QuietUpdates DEF RestartNow, Agrees, Declines, Quiet, historyVars
    <3>2. ASSUME NEW kind \in {"flash", "revert"}, StartsUpdate(kind) PROVE Quiet
      BY <1>1, <3>2 DEF StartsUpdate, Quiet
    <3> QED
      BY <1>4, <3>1, <3>2
  <2>3. WireInv' /\ Stable /\ link' = link /\ txn' = txn
    BY <2>2, QuietKeeps DEF Quiet, linkVars
  <2>4. /\ pc'.main = step /\ pc'.conn = pc.conn /\ pc'.report = pc.report
        /\ pc'.confirm = pc.confirm
    BY <1>1, <2>1 DEF Goes, Flows
  <2>5. pc.main = "ask" => phase = "none" /\ pc.report = "idle" /\ pc.confirm = "idle"
    BY <1>1 DEF PageInv, MainPhase, ReportPhase, ConfirmAlone
  <2>6. MainPhase'
    BY <1>1, <2>1, <2>4, <2>5 DEF PageInv, MainPhase, Uploading
  <2>7. ReportPhase' /\ Sleeps' /\ ConfirmAlone'
    BY <1>1, <2>1, <2>3, <2>4, <2>5 DEF PageInv, ReportPhase, Sleeps, ConfirmAlone
  <2>8. Settled' /\ Passed'
    BY <1>1, <2>1, <2>3, <2>4, <2>5 DEF PageInv, Settled, Passed, Stable
  <2>9. /\ Free("main") /\ txn.by # "main" /\ step \in StepsOf["main"] /\ phase' \in Phases
        /\ step \in Uploading => step \in {"begin", "revert"} /\ pc.conn # "discover"
        /\ link = "none" => step = "idle" /\ phase' # "switched_no_restart"
        /\ "idle" \notin Asking \cup {"ask"}
    <3>1. pc.main \notin Asking
      BY <2>1, AskingIs
    <3>2. Free("main") /\ txn.by # "main"
      BY <1>1, <3>1, NotAsking
    <3> QED
      BY <1>1, <2>1, <3>2, AskingIs DEF StepsOf, Uploading, Phases
  <2>10. PageInv'
    BY <1>1, <2>1, <2>3, <2>6, <2>7, <2>8, <2>9, GoesKeeps
  <2> QED
    BY <2>3, <2>10 DEF ConsoleInv
<1> QED
  BY <1>2, <1>3, <1>4 DEF Person

LEMMA ConsoleInvInit == Init => ConsoleInv
<1> SUFFICES ASSUME Init PROVE ConsoleInv
  OBVIOUS
<1>1. /\ version[0] \in Versions /\ 0 \in 0..MaxResets /\ 0 \in 0..MaxUpdates
      /\ origin \in [Slots -> 0..MaxUpdates]
  BY LimitsAssumption DEF Init, Slots
<1>2. FlashTypeOK
  BY FirstAssumption DEF Init, FlashTypeOK, Slots, States, Images
<1>3. DeviceTypes
  <2>1. requests \in Seq(Requests) /\ replies \in Seq(Replies)
    BY DEF Init
  <2> QED
    BY <1>1, <1>2, <2>1 DEF Init, DeviceTypes
<1>4. PageTypes
  <2>1. job \in Jobs
    BY <1>1 DEF Init, Jobs, Slots
  <2>2. pc \in [Flows -> Steps] /\ waiting \in Seq(Flows)
    BY DEF Init, Steps
  <2>3. txn \in [by : Flows \cup {"none"}, left : 0..1]
    <3>1. txn = [by |-> "none", left |-> 0]
      BY DEF Init, NoTxn
    <3> QED
      BY <3>1
  <2>4. phase \in Phases /\ said \in Verdicts
    <3>1. phase = "none" /\ said = "nothing"
      BY DEF Init
    <3> QED
      BY <3>1 DEF Phases, Verdicts
  <2>5. again \in 0..3
    BY SMT DEF Init
  <2>6. link \in {"none", "open", "dead"} /\ seeking \in BOOLEAN
    BY Zenon DEF Init
  <2> QED
    BY <2>1, <2>2, <2>3, <2>4, <2>5, <2>6 DEF PageTypes
<1>5. \A f \in Flows : pc[f] = "idle"
  BY DEF Init
<1>6. /\ waiting = <<>> /\ txn = NoTxn /\ phase = "none" /\ link = "open" /\ seeking = FALSE
      /\ requests = <<>> /\ replies = <<>> /\ up = TRUE
  BY DEF Init
<1>7. OwnSteps
  BY <1>5 DEF OwnSteps, StepsOf, Flows
<1>8. pc.main = "idle" /\ pc.conn = "idle" /\ pc.report = "idle" /\ pc.confirm = "idle"
  BY <1>5 DEF Flows
<1>9. Queued /\ Linked /\ ConnFirst
  BY <1>6, <1>8 DEF Queued, Linked, ConnFirst, NoTxn, Uploading
<1>10. MainPhase /\ ReportPhase /\ Sleeps /\ ConfirmAlone /\ Settled /\ Passed
  BY <1>6, <1>8 DEF MainPhase, ReportPhase, Sleeps, ConfirmAlone, Settled, Passed, Uploading
<1>11. InfoOrder /\ Vetted
  BY <1>6 DEF InfoOrder, Vetted
<1> QED
  BY <1>3, <1>4, <1>6, <1>7, <1>9, <1>10, <1>11 DEF ConsoleInv, PageInv, WireInv

LEMMA ConsoleInvNext == ConsoleInv /\ [Next]_vars => ConsoleInv'
<1> SUFFICES ASSUME ConsoleInv, [Next]_vars PROVE ConsoleInv'
  OBVIOUS
<1>1. CASE Runs
  BY <1>1, SendsKeeps, LostKeeps DEF Runs
<1>2. CASE ~MustRun /\ (Device \/ Crashes \/ LinkDrops)
  BY <1>2, DeviceKeeps
<1>3. CASE ~MustRun /\ Console
  <2>1. CASE Receives \/ Unsolicited \/ TimesOut
    BY <2>1, ReceivesKeeps, UnsolicitedKeeps, TimesOutKeeps
  <2>2. CASE TransportGone
    BY <2>2, TransportGoneKeeps
  <2>3. CASE DropSeen \/ DropWaitOver \/ Wakes \/ DiscoveryOver \/ GivesUp
    BY <2>3, TimersKeep
  <2>4. CASE AutoConnects
    BY <1>3, <2>4, ConnectsKeeps DEF AutoConnects
  <2> QED
    BY <1>3, <2>1, <2>2, <2>3, <2>4 DEF Console
<1>4. CASE ~MustRun /\ Person
  BY <1>4, PersonKeeps
<1>5. CASE UNCHANGED vars
  <2>1. Quiet /\ UNCHANGED <<waiting, pc, again, phase, job, said, seeking>>
    BY <1>5, QuietUpdates DEF vars, Quiet, historyVars, updVars
  <2>2. WireInv' /\ Stable /\ txn' = txn
    BY <2>1, QuietKeeps DEF Quiet
  <2>3. PageInv'
    BY <2>1, <2>2, StableIsSteady, PageUnchanged DEF ConsoleInv
  <2> QED
    BY <2>2, <2>3 DEF ConsoleInv
<1> QED
  BY <1>1, <1>2, <1>3, <1>4, <1>5 DEF Next

LEMMA ConsoleInvariant == Spec => []ConsoleInv
BY ConsoleInvInit, ConsoleInvNext, PTL DEF Spec

-----------------------------------------------------------------------------
\* Every variable of the page and of the device keeps its type: a request is only
\* sent by a flow that stands at one, and a reply is read for what its type says
\* (transact(), dispatchFrame()).
THEOREM ConsoleTypesCorrect == Spec => []TypeOK
<1>1. ConsoleInv => TypeOK
  <2> SUFFICES ASSUME ConsoleInv PROVE TypeOK
    OBVIOUS
  <2>1. \A i \in 1..Len(replies) : IsReply(replies[i])
    <3> SUFFICES ASSUME NEW i \in 1..Len(replies) PROVE IsReply(replies[i])
      OBVIOUS
    <3>1. replies[i] \in Replies
      BY DEF ConsoleInv, WireInv, DeviceTypes
    <3>2. CASE replies[i] \in [type : {"FW_INFO"}, data : Infos]
      BY <3>2 DEF IsReply
    <3>3. CASE replies[i] \in [type : {"DIAGNOSTICS"}, data : Sensor]
      BY <3>3 DEF IsReply
    <3>4. CASE replies[i] \in [type : {"OK", "ERROR", "STATE"}, data : {NoData}]
      BY <3>4 DEF IsReply
    <3> QED
      BY <3>1, <3>2, <3>3, <3>4 DEF Replies
  <2> QED
    BY <2>1 DEF TypeOK, ConsoleInv, WireInv, DeviceTypes, PageInv, PageTypes
<1> QED
  BY <1>1, ConsoleInvariant, PTL

\* MARK_VALID changes an image on trial only when that image, in this boot, has
\* answered all the checks well (confirmFlashedImage(), CONFIRM_CHECKS): no restart,
\* rollback, lost link or late reply lets the page keep an image unchecked.
THEOREM VettedBeforeKeptCorrect == Spec => VettedBeforeKept
<1> DEFINE Kept == PendingVerify /\ up /\ up' /\ ~PendingVerify' /\ Head(requests) = "MARK_VALID"
<1>1. ASSUME ConsoleInv, Next, Kept PROVE vetted = Checks
  <2>1. UNCHANGED <<running, state>> => PendingVerify' = PendingVerify
    BY DEF PendingVerify
  <2>2. Serves
    <3>1. CASE Runs
      BY <1>1, <2>1, <3>1 DEF Runs, Sends, Lost, deviceVars, imageVars, flashVars
    <3>2. CASE Restarts \/ RollsBack \/ Crashes \/ Boots
      BY <1>1, <3>2 DEF Restarts, RollsBack, Crashes, Boots, Stop
    <3>3. CASE LinkDrops \/ Console \/ Person
      BY <1>1, <2>1, <3>3
         DEF LinkDrops, Console, Receives, Unsolicited, TimesOut, TransportGone, DropSeen, DropWaitOver,
             Wakes, AutoConnects, GivesUp, DiscoveryOver, Person, StartsUpdate, Agrees, Declines,
             RestartNow, PressMarkValid, PersonConnects, Connects, deviceVars, imageVars, flashVars
    <3> QED
      BY <1>1, <3>1, <3>2, <3>3 DEF Next, Device
  <2>3. requests # <<>> /\ link = "open"
    BY <1>1, <2>2
       DEF Serves, AnswerFwInfo, AnswerState, AnswerDiagnostics, Refuse, AnswerBegin, AnswerData,
           AnswerFinish, AnswerRevert, AnswerAbort, AnswerRestart, AnswerMarkValid, Answer, ConsoleInv, WireInv
  <2>4. OnTrial
    BY <1>1, <2>3 DEF OnTrial
  <2>5. 1 \in 1..Len(requests) /\ requests[1] = "MARK_VALID"
    BY <1>1, <2>3, Tailed DEF ConsoleInv, WireInv, DeviceTypes
  <2> QED
    BY <1>1, <2>4, <2>5 DEF ConsoleInv, WireInv, Vetted
<1>2. ConsoleInv /\ [Next]_vars => [Kept => vetted = Checks]_vars
  BY <1>1
<1> QED
  BY <1>2, ConsoleInvariant, PTL DEF Spec, VettedBeforeKept

-----------------------------------------------------------------------------
\* The device under the console.  What keeps an upload from the image that runs and
\* from the one a trial falls back to is that OTA_BEGIN moves the boot slot back and
\* is refused on trial, and that only a session opened so is written to.
BootInv ==
  /\ image[boot] = "full" /\ image[running] = "full"
  /\ state[running] # "new"
  /\ session => up /\ boot = running /\ ~PendingVerify
  /\ \A s \in Slots : state[s] \in {"new", "pending"} => image[Other(s)] = "full"

LEMMA OtherSlot == \A s \in Slots : Other(s) \in Slots /\ Other(s) # s /\ Other(Other(s)) = s
BY DEF Slots, Other

LEMMA BootInvInit == Init => BootInv
<1> SUFFICES ASSUME Init PROVE BootInv
  OBVIOUS
<1>1. /\ running = 0 /\ boot = 0 /\ session = FALSE /\ 0 \in Slots /\ 1 \in Slots
      /\ image[0] = "full"
  BY DEF Init, Slots
<1>2. PICK first \in IF image[1] = "full" THEN FirstStates ELSE {"valid"} :
        state = [s \in Slots |-> IF s = 0 THEN first
                                 ELSE IF image[s] = "full" THEN "valid" ELSE "undefined"]
  BY DEF Init
<1>3. first \in {"valid", "pending"} /\ (first = "pending" => image[1] = "full")
  BY <1>2, FirstAssumption
<1>4. state[0] = first /\ state[1] \in {"valid", "undefined"}
  BY <1>1, <1>2
<1> QED
  BY <1>1, <1>3, <1>4 DEF BootInv, Slots, Other

\* An answer of the device.
LEMMA ServesBoots ==
  ASSUME FlashTypeOK, BootInv, Serves
  PROVE  BootInv'
<1> PICK sent \in BOOLEAN :
      \/ AnswerFwInfo(sent)
      \/ AnswerState(sent)
      \/ \E sensor \in Sensor : AnswerDiagnostics(sent, sensor)
      \/ Refuse(sent)
      \/ AnswerBegin(sent)
      \/ AnswerData(sent)
      \/ AnswerFinish(sent)
      \/ AnswerRevert(sent)
      \/ AnswerAbort(sent)
      \/ AnswerRestart(sent)
      \/ AnswerMarkValid(sent)
  BY DEF Serves
<1>1. running \in Slots /\ Other(running) \in Slots /\ Other(running) # running
  BY OtherSlot DEF FlashTypeOK
<1>2. CASE AnswerBegin(sent)
  <2>1. /\ up' = up /\ up /\ ~PendingVerify /\ boot' = running /\ running' = running
        /\ image' = [image EXCEPT ![Other(running)] = "none"]
        /\ state' = [state EXCEPT ![Other(running)] = "undefined"]
    BY <1>2 DEF AnswerBegin, Answer, EraseOther
  <2> QED
    BY <1>1, <2>1, OtherSlot DEF BootInv, PendingVerify, FlashTypeOK
<1>3. CASE AnswerData(sent)
  <2>1. /\ up' = up /\ session /\ session' = session /\ UNCHANGED <<state, boot, running>>
        /\ image' = [image EXCEPT ![Other(running)] = "partial"]
    BY <1>3 DEF AnswerData, Answer, WriteDescriptor
  <2> QED
    BY <1>1, <2>1, OtherSlot DEF BootInv, PendingVerify, FlashTypeOK
<1>4. CASE AnswerFinish(sent)
  <2>1. /\ session /\ session' = FALSE /\ boot' = Other(running) /\ running' = running
        /\ image' = [image EXCEPT ![Other(running)] = "full"]
        /\ state' = [state EXCEPT ![Other(running)] = "new"]
    BY <1>4 DEF AnswerFinish, CommitImage
  <2> QED
    BY <1>1, <2>1, OtherSlot DEF BootInv, FlashTypeOK
<1>5. CASE AnswerRevert(sent)
  <2>1. /\ image[Other(running)] = "full" /\ session' = FALSE /\ boot' = Other(running)
        /\ state' = [state EXCEPT ![Other(running)] = "new"] /\ UNCHANGED <<image, running>>
    BY <1>5 DEF AnswerRevert, SetBoot
  <2> QED
    BY <1>1, <2>1, OtherSlot DEF BootInv, FlashTypeOK
<1>6. CASE AnswerMarkValid(sent)
  <2>1. /\ state' = [state EXCEPT ![running] = "valid"] /\ UNCHANGED <<image, boot, running, session, up>>
    BY <1>6 DEF AnswerMarkValid, Answer, MarkRunningValid
  <2> QED
    BY <1>1, <2>1 DEF BootInv, PendingVerify, FlashTypeOK
<1>7. ASSUME \/ AnswerFwInfo(sent)
             \/ AnswerState(sent)
             \/ \E sensor \in Sensor : AnswerDiagnostics(sent, sensor)
             \/ Refuse(sent)
             \/ AnswerAbort(sent)
             \/ AnswerRestart(sent)
      PROVE  BootInv'
  <2>1. UNCHANGED <<image, state, boot, running, up>>
    BY <1>7
       DEF AnswerFwInfo, AnswerState, AnswerDiagnostics, Refuse, AnswerAbort, AnswerRestart, Answer,
           flashVars
  <2>2. session' => session
    <3>1. CASE Refuse(sent)
      BY <3>1, Zenon DEF Refuse
    <3>2. CASE ~Refuse(sent)
      BY <1>7, <3>2 DEF AnswerFwInfo, AnswerState, AnswerDiagnostics, AnswerAbort, AnswerRestart
    <3> QED
      BY <3>1, <3>2
  <2> QED
    BY <2>1, <2>2 DEF BootInv, PendingVerify
<1> QED
  BY <1>2, <1>3, <1>4, <1>5, <1>6, <1>7

\* A boot starts a complete image; one that was new is on trial now.
LEMMA BootsBoots ==
  ASSUME FlashTypeOK, BootInv, Boots
  PROVE  BootInv'
<1> DEFINE swept == [s \in Slots |-> IF state[s] = "pending" THEN "aborted" ELSE state[s]]
           next  == IF state[boot] = "pending" /\ image[Other(boot)] = "full" THEN Other(boot) ELSE boot
<1>1. /\ ~up /\ session' = session /\ image' = image /\ boot' = next /\ running' = next
      /\ state' = IF swept[next] = "new" THEN [swept EXCEPT ![next] = "pending"] ELSE swept
  BY DEF Boots, Bootloader
<1>2. next \in Slots /\ image[next] = "full" /\ ~session
  BY <1>1, OtherSlot DEF FlashTypeOK, BootInv
<1>3. swept \in [Slots -> States] /\ \A s \in Slots : swept[s] # "pending" /\ (swept[s] = "new" => state[s] = "new")
  BY DEF FlashTypeOK, States
<1> HIDE DEF swept, next
<1>4. state'[next] # "new"
  BY <1>1, <1>2, <1>3
<1>5. \A s \in Slots : state'[s] \in {"new", "pending"} => state[s] = "new"
  BY <1>1, <1>2, <1>3
<1> QED
  BY <1>1, <1>2, <1>4, <1>5 DEF BootInv

LEMMA BootInvNext ==
  ASSUME FlashTypeOK, BootInv, [Next]_vars
  PROVE  BootInv'
<1>1. CASE Serves
  BY <1>1, ServesBoots
<1>2. CASE Boots
  BY <1>2, BootsBoots
<1>3. CASE RollsBack
  <2>1. /\ RollbackPossible /\ session' = FALSE /\ boot' = Other(running)
        /\ state' = [state EXCEPT ![running] = "invalid"] /\ UNCHANGED <<image, running>>
    BY <1>3 DEF RollsBack, MarkRunningInvalid, Stop
  <2> QED
    BY <2>1, OtherSlot DEF BootInv, FlashTypeOK, RollbackPossible
<1>4. CASE Restarts \/ Crashes
  <2>1. UNCHANGED <<image, state, boot, running>> /\ session' = FALSE
    BY <1>4 DEF Restarts, Crashes, Stop, flashVars
  <2> QED
    BY <2>1 DEF BootInv
<1>5. CASE Runs \/ LinkDrops \/ Console \/ Person \/ UNCHANGED vars
  <2>1. UNCHANGED deviceVars
    BY <1>5
       DEF Runs, Sends, Lost, LinkDrops, Console, Receives, Unsolicited, TimesOut, TransportGone,
           DropSeen, DropWaitOver, Wakes, AutoConnects, GivesUp, DiscoveryOver, Person, StartsUpdate,
           Agrees, Declines, RestartNow, PressMarkValid, PersonConnects, Connects, vars
  <2>2. UNCHANGED <<image, state, boot, running, session, up>>
    BY <2>1 DEF deviceVars, flashVars
  <2> QED
    BY <2>2 DEF BootInv, PendingVerify
<1> QED
  BY <1>1, <1>2, <1>3, <1>4, <1>5 DEF Next, Device

\* Whatever a page sends, in whatever order its requests arrive, the device has a
\* complete image to boot, and an image on trial one to go back to, for any number of
\* updates, resets and late replies (handle_frame_locked, SimFlash).
THEOREM ConsoleKeepsBootable ==
  Spec => [](image[boot] = "full" /\ (PendingVerify => image[Other(running)] = "full"))
<1>1. ConsoleInv => FlashTypeOK
  BY DEF ConsoleInv, WireInv, DeviceTypes
<1>2. Init => BootInv
  BY BootInvInit
<1>3. ConsoleInv /\ BootInv /\ [Next]_vars => BootInv'
  BY <1>1, BootInvNext
<1>4. ConsoleInv /\ BootInv =>
        image[boot] = "full" /\ (PendingVerify => image[Other(running)] = "full")
  BY <1>1 DEF BootInv, PendingVerify, FlashTypeOK
<1> QED
  BY <1>2, <1>3, <1>4, ConsoleInvariant, PTL DEF Spec
-----------------------------------------------------------------------------
\* The requests that write to the slot which does not run, or switch the boot slot,
\* and where main stands when it sends one.
Switching == {"OTA_BEGIN", "OTA_DATA", "OTA_FINISH", "REVERT"}
SwitchSteps == {"begin", "data", "finish", "revert"}
OnTheWay == \E i \in 1..Len(requests) : requests[i] \in Switching

\* While the firmware runs, the boot slot is another than the running one only when
\* the image in it has not been started yet.
Started == up /\ boot # running => state[boot] = "new"

\* The image v in slot o stays: the device goes back to it from whatever is tried in
\* the other slot, and only it writes to that slot.
OldKept(o, v) ==
  /\ image[o] = "full" /\ state[o] \notin {"new", "pending"} /\ version[o] = v
  /\ boot # o => state[Other(o)] \in {"new", "pending", "valid"}
  /\ up /\ running # o => boot # o
  /\ OnTheWay => running = o

\* FW_INFO on the link is of one boot.  One that is not pending tells of an image
\* that stays.
IsInfo(i) == i \in 1..Len(replies) /\ replies[i].type = "FW_INFO"
Told ==
  \A i \in 1..Len(replies) : IsInfo(i) =>
    /\ link = "open" => replies[i].data.running = running
    /\ \A j \in 1..Len(replies) : IsInfo(j) => replies[j].data.running = replies[i].data.running
    /\ \A s \in Slots, v \in Versions :
         s = replies[i].data.running /\ v = replies[i].data.version /\ ~replies[i].data.pending
           => OldKept(s, v)

\* The page has planned an update (job); while it is at it, the image it planned from
\* runs, or the link has gone.
Planned == phase # "none" \/ pc.main = "ask"
Ongoing == pc.main \notin {"idle", "plan", "ask"} \/ pc.confirm # "idle" => phase # "none"
Agreed == pc.main \in SwitchSteps \cup {"ask"} /\ link = "open" => running = Other(job.slot)

\* From the plan on the image it was made from stays, and what FW_INFO says on the link
\* tells the two images apart: what is not pending in the job's slot has been kept.
JobKept == boot = job.slot /\ state[job.slot] = "valid"
Remembered ==
  Planned /\ ~job.trial =>
    /\ OldKept(Other(job.slot), job.before)
    /\ \A i \in 1..Len(replies) : IsInfo(i) =>
         /\ replies[i].data.pending => replies[i].data.running = job.slot
         /\ ~replies[i].data.pending /\ replies[i].data.running = job.slot => JobKept

\* The checks are about the image in the job's slot, which runs until the link goes.
OfJob ==
  ~job.trial =>
    /\ link = "open" => running = job.slot
    /\ \A i \in 1..Len(replies) : IsInfo(i) => replies[i].data.running = job.slot
Confirming == pc.confirm # "idle" /\ link # "none" => phase = "confirming" /\ OfJob

Said == said = "confirmed" => phase = "done" /\ (~job.trial => JobKept)

WordInv == Started /\ Told /\ Ongoing /\ Agreed /\ Remembered /\ Confirming /\ Said

-----------------------------------------------------------------------------
\* What one step of the device does to its slots: nothing, a write to the slot that
\* does not run (asked for by a request), an image kept or given up, or a boot.
FlashMoves ==
  \/ UNCHANGED <<image, state, boot, running, version>> /\ (up' => up)
  \/ /\ up /\ up' /\ OnTheWay /\ running' = running
     /\ image'[running] = image[running] /\ state'[running] = state[running]
     /\ version'[running] = version[running]
     /\ \/ boot' = running
        \/ boot' = Other(running) /\ state'[boot'] = "new"
        \/ boot' = boot /\ state' = state
  \/ up /\ up' /\ MarkRunningValid /\ version' = version
  \/ up /\ ~up' /\ PendingVerify /\ MarkRunningInvalid /\ version' = version
  \/ ~up /\ up' /\ Bootloader /\ version' = version

\* What it does to the link.
LinkMoves ==
  /\ UNCHANGED <<pc, phase, job, said>>
  /\ OnTheWay' => OnTheWay
  /\ ~up' => ~OnTheWay'
  /\ ~up => ~OnTheWay
  /\ link' = "open" => link = "open" /\ running' = running /\ up
  /\ link' = "none" <=> link = "none"
  /\ \/ replies' = replies
     \/ /\ link = "open" /\ up
        /\ \E reply \in Replies :
             /\ replies' = Append(replies, reply)
             /\ reply.type = "FW_INFO" =>
                  reply.data = FwInfo /\ UNCHANGED <<image, state, boot, running, version, up>>

\* An image that stays goes on to stay.
LEMMA OldKeptStays ==
  ASSUME FlashTypeOK, FlashMoves, OnTheWay' => OnTheWay, ~up' => ~OnTheWay', ~up => ~OnTheWay,
         NEW o \in Slots, NEW v, OldKept(o, v)
  PROVE  OldKept(o, v)'
<1>1. /\ Other(o) \in Slots /\ Other(o) # o /\ \A s \in Slots : s # o => s = Other(o)
      /\ running \in Slots /\ boot \in Slots /\ state \in [Slots -> States]
  BY DEF FlashTypeOK, Slots, Other
<1>2. CASE UNCHANGED <<image, state, boot, running, version>> /\ (up' => up)
  BY <1>2 DEF OldKept
<1>3. CASE /\ up /\ up' /\ OnTheWay /\ running' = running
           /\ image'[running] = image[running] /\ state'[running] = state[running]
           /\ version'[running] = version[running]
           /\ \/ boot' = running
              \/ boot' = Other(running) /\ state'[boot'] = "new"
              \/ boot' = boot /\ state' = state
  BY <1>1, <1>3 DEF OldKept
<1>4. CASE up /\ up' /\ MarkRunningValid /\ version' = version
  BY <1>1, <1>4 DEF OldKept, MarkRunningValid
<1>5. CASE up /\ ~up' /\ PendingVerify /\ MarkRunningInvalid /\ version' = version
  BY <1>1, <1>5, OtherSlot DEF OldKept, MarkRunningInvalid, PendingVerify
<1>6. CASE ~up /\ up' /\ Bootloader /\ version' = version
  <2> DEFINE swept == [s \in Slots |-> IF state[s] = "pending" THEN "aborted" ELSE state[s]]
             next  == IF state[boot] = "pending" /\ image[Other(boot)] = "full" THEN Other(boot) ELSE boot
  <2>1. /\ image' = image /\ boot' = next /\ running' = next
        /\ state' = IF swept[next] = "new" THEN [swept EXCEPT ![next] = "pending"] ELSE swept
    BY <1>6 DEF Bootloader
  <2>2. CASE boot = o
    <3>1. next = o /\ swept[o] = state[o]
      BY <1>1, <2>2 DEF OldKept
    <3>2. state' = swept
      BY <2>1, <3>1 DEF OldKept
    <3> QED
      BY <1>6, <2>1, <3>1, <3>2 DEF OldKept
  <2>3. CASE boot # o /\ state[boot] = "pending"
    <3>1. next = o /\ swept[o] = state[o]
      BY <1>1, <2>3 DEF OldKept, Other, Slots
    <3>2. state' = swept
      BY <2>1, <3>1 DEF OldKept
    <3> QED
      BY <1>6, <2>1, <3>1, <3>2 DEF OldKept
  <2>4. CASE boot # o /\ state[boot] # "pending"
    <3>1. boot = Other(o) /\ next = boot /\ state[boot] \in {"new", "valid"}
      BY <1>1, <2>4 DEF OldKept
    <3>2. /\ swept[boot] = state[boot] /\ swept[o] = state[o] /\ swept \in [Slots -> States]
      BY <1>1, <2>4 DEF OldKept, States
    <3>3. state'[o] = state[o] /\ state'[boot] \in {"pending", "valid"}
      BY <1>1, <2>1, <3>1, <3>2
    <3> QED
      BY <1>1, <1>6, <2>1, <3>1, <3>3 DEF OldKept
  <2> QED
    BY <2>2, <2>3, <2>4
<1> QED
  BY <1>2, <1>3, <1>4, <1>5, <1>6 DEF FlashMoves

\* So does the job's image, once it has been kept.
LEMMA JobKeptStays ==
  ASSUME FlashTypeOK, Started, FlashMoves, job' = job, job \in Jobs,
         OldKept(Other(job.slot), job.before), JobKept
  PROVE  JobKept'
<1> DEFINE s == job.slot
<1>1. /\ s \in Slots /\ boot = s /\ state[s] = "valid" /\ state \in [Slots -> States]
      /\ Other(s) # s
  BY OtherSlot DEF FlashTypeOK, Jobs, JobKept
<1>2. up => running = s /\ ~OnTheWay
  BY <1>1 DEF Started, OldKept
<1>3. CASE UNCHANGED <<image, state, boot, running, version>> \/ (OnTheWay /\ up)
  BY <1>1, <1>2, <1>3 DEF JobKept
<1>4. CASE up /\ MarkRunningValid
  BY <1>1, <1>4 DEF JobKept, MarkRunningValid
<1>5. CASE up /\ PendingVerify
  BY <1>1, <1>2, <1>5 DEF PendingVerify
<1>6. CASE Bootloader
  <2> DEFINE swept == [t \in Slots |-> IF state[t] = "pending" THEN "aborted" ELSE state[t]]
  <2>1. swept[s] = "valid" /\ boot' = s /\ state' = swept
    BY <1>1, <1>6 DEF Bootloader
  <2> QED
    BY <1>1, <2>1 DEF JobKept
<1> QED
  BY <1>3, <1>4, <1>5, <1>6 DEF FlashMoves

\* FW_INFO on the link is well formed.
LEMMA InfoTyped ==
  ASSUME WireInv, NEW i \in 1..Len(replies), IsInfo(i)
  PROVE  /\ replies[i].data \in Infos /\ replies[i].data.running \in Slots
         /\ replies[i].data.version \in Versions /\ replies[i].data.pending \in BOOLEAN
<1>1. replies[i] \in Replies /\ replies[i].type = "FW_INFO"
  BY DEF WireInv, DeviceTypes, IsInfo
<1>2. replies[i].data \in Infos
  BY <1>1 DEF Replies
<1> QED
  BY <1>2 DEF Infos

\* A reply is sent behind those that are on their way.
LEMMA InfoSent ==
  ASSUME WireInv, LinkMoves
  PROVE  /\ replies' \in Seq(Replies) /\ Len(replies) \in Nat /\ Len(replies') \in Nat
         /\ \A i \in 1..Len(replies') : IsInfo(i)' =>
              \/ i \in 1..Len(replies) /\ IsInfo(i) /\ replies'[i] = replies[i]
              \/ /\ link = "open" /\ up /\ replies'[i].data = FwInfo
                 /\ UNCHANGED <<image, state, boot, running, version, up>>
<1>1. replies \in Seq(Replies) /\ Len(replies) \in Nat
  BY DEF WireInv, DeviceTypes
<1>2. CASE replies' = replies
  BY <1>1, <1>2 DEF IsInfo
<1>3. CASE ~(replies' = replies)
  <2>1. PICK reply \in Replies :
          /\ link = "open" /\ up /\ replies' = Append(replies, reply)
          /\ reply.type = "FW_INFO" =>
               reply.data = FwInfo /\ UNCHANGED <<image, state, boot, running, version, up>>
    BY <1>3 DEF LinkMoves
  <2>2. /\ replies' \in Seq(Replies) /\ Len(replies') = Len(replies) + 1
        /\ \A i \in 1..Len(replies) : replies'[i] = replies[i]
        /\ replies'[Len(replies) + 1] = reply
    BY <1>1, <2>1, Appended
  <2>3. \A i \in 1..Len(replies') : i \in 1..Len(replies) \/ i = Len(replies) + 1
    BY <1>1, <2>2
  <2>4. ASSUME NEW i \in 1..Len(replies'), IsInfo(i)'
        PROVE  \/ i \in 1..Len(replies) /\ IsInfo(i) /\ replies'[i] = replies[i]
               \/ /\ replies'[i].data = FwInfo
                  /\ UNCHANGED <<image, state, boot, running, version, up>>
    <3>1. CASE i \in 1..Len(replies)
      BY <2>2, <2>4, <3>1 DEF IsInfo
    <3>2. CASE i = Len(replies) + 1
      BY <2>1, <2>2, <2>4, <3>2 DEF IsInfo
    <3> QED
      BY <2>3, <3>1, <3>2
  <2>5. Len(replies') \in Nat
    BY <1>1, <2>2
  <2> QED
    BY <1>1, <2>1, <2>2, <2>4, <2>5, Zenon
<1> QED
  BY <1>2, <1>3

\* FW_INFO of an image that is not on trial tells of one that stays.
LEMMA InfoIsSo ==
  ASSUME FlashTypeOK, BootInv, Started, up
  PROVE  /\ FwInfo.running = running /\ FwInfo.version = version[running]
         /\ FwInfo.pending = PendingVerify
         /\ ~PendingVerify => OldKept(running, version[running])
<1>1. boot # running => boot = Other(running)
  BY DEF FlashTypeOK, Slots, Other
<1> QED
  BY <1>1 DEF FwInfo, OldKept, BootInv, Started, PendingVerify

\* The device, or the cable, goes on: what the page has been told and what it knows
\* stays true.
LEMMA DeviceWord ==
  ASSUME ConsoleInv, BootInv, WordInv, LinkMoves, FlashMoves, Started'
  PROVE  WordInv'
<1>0. job \in Jobs /\ job.slot \in Slots
  BY DEF ConsoleInv, PageInv, PageTypes, Jobs
<1> PICK o \in Slots : o = Other(job.slot)
  BY <1>0, OtherSlot
<1>1. /\ FlashTypeOK /\ WireInv /\ running \in Slots /\ boot \in Slots
      /\ job \in Jobs /\ job.slot \in Slots /\ o # job.slot /\ Other(o) = job.slot
      /\ \A s \in Slots : s = o \/ s = job.slot
  <2>1. FlashTypeOK /\ WireInv
    BY DEF ConsoleInv, WireInv, DeviceTypes
  <2> QED
    BY <1>0, <2>1, OtherSlot DEF FlashTypeOK, Slots
<1>2. /\ UNCHANGED <<pc, phase, job, said>>
      /\ OnTheWay' => OnTheWay
      /\ ~up' => ~OnTheWay'
      /\ ~up => ~OnTheWay
      /\ link' = "open" => link = "open" /\ running' = running /\ up
      /\ link' = "none" <=> link = "none"
  BY DEF LinkMoves
<1>3. \A s \in Slots, v \in Versions : OldKept(s, v) => OldKept(s, v)'
  BY <1>1, <1>2, OldKeptStays
<1>4. PICK v \in Versions : v = job.before /\ (Planned /\ ~job.trial => OldKept(o, v))
  BY <1>1 DEF WordInv, Remembered, Jobs
<1>5. Planned /\ ~job.trial /\ JobKept => JobKept'
  BY <1>1, <1>2, <1>4, JobKeptStays DEF WordInv
<1> DEFINE Old(k) == k \in 1..Len(replies) /\ IsInfo(k) /\ replies'[k] = replies[k]
           New(k) == /\ link = "open" /\ up /\ replies'[k].data = FwInfo
                     /\ UNCHANGED <<image, state, boot, running, version, up>>
<1>6. \A k \in 1..Len(replies') : IsInfo(k)' => Old(k) \/ New(k)
  BY <1>1, InfoSent
<1>7. \A k \in 1..Len(replies') : New(k) =>
        /\ replies'[k].data.running = running /\ running' = running
        /\ replies'[k].data.version = version[running]
        /\ replies'[k].data.pending = PendingVerify
        /\ ~PendingVerify => OldKept(running, version[running])
  BY <1>1, InfoIsSo DEF WordInv
<1>8. Told'
  <2>1. ASSUME NEW i \in 1..Len(replies'), IsInfo(i)', link' = "open"
        PROVE  replies'[i].data.running = running'
    BY <1>2, <1>6, <1>7, <2>1 DEF WordInv, Told
  <2>2. ASSUME NEW i \in 1..Len(replies'), IsInfo(i)', NEW j \in 1..Len(replies'), IsInfo(j)'
        PROVE  replies'[j].data.running = replies'[i].data.running
    BY <1>2, <1>6, <1>7, <2>2 DEF WordInv, Told
  <2>3. ASSUME NEW i \in 1..Len(replies'), IsInfo(i)', NEW s \in Slots, NEW w \in Versions,
               s = replies'[i].data.running, w = replies'[i].data.version, ~replies'[i].data.pending
        PROVE  OldKept(s, w)'
    <3>1. OldKept(s, w)
      BY <1>6, <1>7, <2>3 DEF WordInv, Told
    <3> QED
      BY <1>3, <3>1
  <2> QED
    BY <2>1, <2>2, <2>3 DEF Told
<1>9. Remembered'
  <2> SUFFICES ASSUME Planned, ~job.trial PROVE Remembered'
    BY <1>2 DEF Remembered, Planned
  <2>1. OldKept(o, v) /\ OldKept(o, v)'
    BY <1>1, <1>3, <1>4
  <2>2. OldKept(Other(job.slot), job.before)'
    BY <1>2, <1>4, <2>1 DEF OldKept
  <2>3. ASSUME NEW i \in 1..Len(replies'), IsInfo(i)'
        PROVE  /\ replies'[i].data.pending => replies'[i].data.running = job.slot
               /\ ~replies'[i].data.pending /\ replies'[i].data.running = job.slot => JobKept'
    <3>1. CASE Old(i)
      BY <1>5, <3>1 DEF WordInv, Remembered
    <3>2. CASE New(i)
      <4>1. PendingVerify => running = job.slot
        BY <1>1, <2>1 DEF PendingVerify, OldKept
      <4>2. ~PendingVerify /\ running = job.slot => JobKept
        BY <1>1, <2>1, <3>2 DEF PendingVerify, OldKept, JobKept, BootInv
      <4> QED
        BY <1>5, <1>7, <3>2, <4>1, <4>2
    <3> QED
      BY <1>6, <2>3, <3>1, <3>2
  <2> QED
    BY <1>2, <2>2, <2>3 DEF Remembered
<1>10. Confirming'
  <2>1. ASSUME pc.confirm # "idle", link # "none", ~job.trial, NEW i \in 1..Len(replies'), IsInfo(i)'
        PROVE  replies'[i].data.running = job.slot
    BY <1>6, <1>7, <2>1 DEF WordInv, Confirming, OfJob
  <2> QED
    BY <1>2, <2>1 DEF WordInv, Confirming, OfJob
<1>11. Ongoing' /\ Agreed'
  BY <1>2 DEF WordInv, Ongoing, Agreed
<1>12. Said'
  BY <1>2, <1>5 DEF WordInv, Said, Planned
<1> QED
  BY <1>8, <1>9, <1>10, <1>11, <1>12 DEF WordInv
\* An answer takes the request at the head.
LEMMA AnswerMoves ==
  ASSUME WireInv, NEW request, NEW sent \in BOOLEAN, NEW reply \in Replies,
         Answer(request, sent, reply), running' = running,
         reply.type = "FW_INFO" =>
           reply.data = FwInfo /\ UNCHANGED <<image, state, boot, running, version, up>>
  PROVE  LinkMoves /\ up /\ up' /\ (request \in Switching => OnTheWay)
<1>1. /\ link = "open" /\ link' = link /\ up' = up /\ up /\ UNCHANGED <<pc, phase, job, said>>
      /\ requests # <<>> /\ requests' = Tail(requests) /\ Head(requests) = request
      /\ replies' = IF sent THEN Append(replies, reply) ELSE replies
  BY DEF Answer, WireInv, consoleVars, updVars
<1>2. requests \in Seq(Requests)
  BY DEF WireInv, DeviceTypes
<1>3. /\ \A i \in 1..Len(requests') : requests'[i] = requests[i + 1] /\ i + 1 \in 1..Len(requests)
      /\ 1 \in 1..Len(requests) /\ requests[1] = request
  BY <1>1, <1>2, Tailed
<1>4. (OnTheWay' => OnTheWay) /\ (request \in Switching => OnTheWay)
  BY <1>3 DEF OnTheWay
<1> QED
  BY <1>1, <1>4 DEF LinkMoves

LEMMA ServesMoves ==
  ASSUME ConsoleInv, Started, Serves
  PROVE  LinkMoves /\ FlashMoves /\ Started'
<1> PICK sent \in BOOLEAN :
      \/ AnswerFwInfo(sent)
      \/ AnswerState(sent)
      \/ \E sensor \in Sensor : AnswerDiagnostics(sent, sensor)
      \/ Refuse(sent)
      \/ AnswerBegin(sent)
      \/ AnswerData(sent)
      \/ AnswerFinish(sent)
      \/ AnswerRevert(sent)
      \/ AnswerAbort(sent)
      \/ AnswerRestart(sent)
      \/ AnswerMarkValid(sent)
  BY DEF Serves
<1>1. /\ WireInv /\ FlashTypeOK /\ version \in [Slots -> Versions]
      /\ running \in Slots /\ Other(running) \in Slots /\ Other(running) # running
      /\ image \in [Slots -> Images] /\ state \in [Slots -> States]
  BY OtherSlot DEF ConsoleInv, WireInv, DeviceTypes, FlashTypeOK
<1>2. \A type \in {"OK", "ERROR", "STATE"} : Plain(type) \in Replies /\ Plain(type).type = type
  BY DEF Plain, Replies
<1>3. ASSUME NEW request, NEW reply \in Replies, Answer(request, sent, reply),
             UNCHANGED <<flashVars, version>>, reply.type = "FW_INFO" => reply.data = FwInfo
      PROVE  LinkMoves /\ FlashMoves /\ Started'
  <2>1. UNCHANGED <<image, state, boot, running, version, up>>
    BY <1>3 DEF flashVars, Answer
  <2> QED
    BY <1>1, <1>3, <2>1, AnswerMoves DEF FlashMoves, Started
<1>4. CASE AnswerFwInfo(sent)
  <2> DEFINE reply == [type |-> "FW_INFO", data |-> FwInfo]
  <2>1. reply \in Replies /\ reply.data = FwInfo
    BY <1>1, FwInfoTyped DEF Replies
  <2>2. Answer("GET_FW_INFO", sent, reply) /\ UNCHANGED <<flashVars, version>>
    BY <1>4 DEF AnswerFwInfo, imageVars
  <2> QED
    BY <1>3, <2>1, <2>2
<1>5. ASSUME NEW sensor \in Sensor, AnswerDiagnostics(sent, sensor)
      PROVE  LinkMoves /\ FlashMoves /\ Started'
  <2> DEFINE reply == [type |-> "DIAGNOSTICS", data |-> sensor]
  <2>1. reply \in Replies /\ reply.type = "DIAGNOSTICS"
    BY DEF Replies
  <2>2. Answer("GET_DIAGNOSTICS", sent, reply) /\ UNCHANGED <<flashVars, version>>
    BY <1>5 DEF AnswerDiagnostics, imageVars
  <2> QED
    BY <1>3, <2>1, <2>2
<1>6. CASE AnswerState(sent) \/ Refuse(sent) \/ AnswerAbort(sent) \/ AnswerRestart(sent)
  <2>1. \E type \in {"OK", "ERROR", "STATE"} : \E request : Answer(request, sent, Plain(type))
    <3>1. Refuse(sent) => \E request : Answer(request, sent, Plain("ERROR"))
      BY DEF Refuse
    <3>2. AnswerState(sent) => Answer("GET_STATE", sent, Plain("STATE"))
      BY DEF AnswerState
    <3>3. AnswerAbort(sent) \/ AnswerRestart(sent) => \E request : Answer(request, sent, Plain("OK"))
      BY DEF AnswerAbort, AnswerRestart
    <3> QED
      BY <1>6, <3>1, <3>2, <3>3
  <2>2. UNCHANGED <<flashVars, version>>
    BY <1>6 DEF AnswerState, Refuse, AnswerAbort, AnswerRestart, imageVars
  <2>3. PICK type \in {"OK", "ERROR", "STATE"} : \E request : Answer(request, sent, Plain(type))
    BY <2>1
  <2>4. PICK request : Answer(request, sent, Plain(type))
    BY <2>3
  <2> QED
    BY <1>2, <1>3, <2>2, <2>4
\* What writes to the slot that does not run, or switches the boot slot.
<1>7. ASSUME NEW request \in Switching, Answer(request, sent, Plain("OK")), running' = running,
             image'[running] = image[running], state'[running] = state[running],
             version'[running] = version[running],
             \/ boot' = running
             \/ boot' = Other(running) /\ state'[boot'] = "new"
             \/ boot' = boot /\ state' = state
      PROVE  LinkMoves /\ FlashMoves /\ Started'
  <2>1. LinkMoves /\ up /\ up' /\ OnTheWay
    BY <1>1, <1>2, <1>7, AnswerMoves
  <2> QED
    BY <1>7, <2>1 DEF FlashMoves, Started
<1>8. CASE AnswerBegin(sent)
  <2>1. Answer("OTA_BEGIN", sent, Plain("OK")) /\ EraseOther
    BY <1>8 DEF AnswerBegin
  <2>2. version'[running] = version[running]
    BY <1>1, <1>8 DEF AnswerBegin
  <2> QED
    BY <1>1, <1>7, <2>1, <2>2 DEF EraseOther, Switching
<1>9. CASE AnswerData(sent)
  <2>1. Answer("OTA_DATA", sent, Plain("OK")) /\ WriteDescriptor /\ version' = version
    BY <1>9 DEF AnswerData, imageVars
  <2> QED
    BY <1>1, <1>7, <2>1 DEF WriteDescriptor, Switching
<1>10. CASE AnswerFinish(sent)
  <2>1. Answer("OTA_FINISH", sent, Plain("OK")) /\ CommitImage /\ version' = version
    BY <1>10 DEF AnswerFinish, imageVars
  <2> QED
    BY <1>1, <1>7, <2>1 DEF CommitImage, Switching
<1>11. CASE AnswerRevert(sent)
  <2>1. Answer("REVERT", sent, Plain("OK")) /\ SetBoot(Other(running)) /\ version' = version
    BY <1>11 DEF AnswerRevert, imageVars
  <2> QED
    BY <1>1, <1>7, <2>1 DEF SetBoot, Switching
<1>12. CASE AnswerMarkValid(sent)
  <2>1. PICK request : Answer(request, sent, Plain("OK"))
    BY <1>12 DEF AnswerMarkValid
  <2>2. MarkRunningValid /\ version' = version /\ running' = running
    BY <1>12 DEF AnswerMarkValid, MarkRunningValid, imageVars
  <2>3. LinkMoves /\ up /\ up'
    BY <1>1, <1>2, <2>1, <2>2, AnswerMoves
  <2>4. Started'
    BY <1>1, <2>2, <2>3 DEF Started, MarkRunningValid, FlashTypeOK
  <2> QED
    BY <2>2, <2>3, <2>4 DEF FlashMoves
<1> QED
  BY <1>4, <1>5, <1>6, <1>8, <1>9, <1>10, <1>11, <1>12

\* Between two answers the firmware stops, starts again, or loses the link.
LEMMA DeviceMoves ==
  ASSUME ConsoleInv, ConsoleInv', Started, Device \/ Crashes \/ LinkDrops
  PROVE  LinkMoves /\ FlashMoves /\ Started'
<1>1. /\ requests \in Seq(Requests) /\ (link # "open" => requests = <<>>) /\ (~up => link # "open")
      /\ link \in {"none", "open", "dead"}
  BY DEF ConsoleInv, WireInv, DeviceTypes, PageInv, PageTypes
<1>2. ~up => ~OnTheWay
  BY <1>1 DEF OnTheWay
<1>3. requests' = <<>> => ~OnTheWay'
  BY DEF OnTheWay
<1>4. CASE Restarts \/ Crashes
  <2>1. /\ up /\ up' = FALSE /\ requests' = <<>> /\ link' = IF link = "open" THEN "dead" ELSE link
        /\ UNCHANGED <<image, state, boot, running, version>>
        /\ UNCHANGED <<replies, pc, phase, job, said>>
    BY <1>4 DEF Restarts, Crashes, Stop, flashVars, imageVars, updVars
  <2> QED
    BY <1>1, <1>2, <1>3, <2>1 DEF LinkMoves, FlashMoves, Started
<1>5. CASE RollsBack
  <2>1. /\ up /\ up' = FALSE /\ requests' = <<>> /\ link' = IF link = "open" THEN "dead" ELSE link
        /\ PendingVerify /\ MarkRunningInvalid /\ version' = version
        /\ UNCHANGED <<replies, pc, phase, job, said>>
    BY <1>5 DEF RollsBack, Stop, imageVars, updVars
  <2> QED
    BY <1>1, <1>2, <1>3, <2>1 DEF LinkMoves, FlashMoves, Started
<1>6. CASE Boots
  <2>1. /\ ~up /\ up' = TRUE /\ Bootloader /\ boot' = running' /\ version' = version
        /\ UNCHANGED <<link, requests, replies, pc, phase, job, said>>
    BY <1>6 DEF Boots, Bootloader, imageVars, linkVars, consoleVars, updVars
  <2>2. ~OnTheWay'
    BY <1>2, <2>1 DEF OnTheWay
  <2> QED
    BY <1>1, <1>2, <2>1, <2>2 DEF LinkMoves, FlashMoves, Started
<1>7. CASE LinkDrops
  <2>1. /\ link = "open" /\ link' = "dead" /\ requests' = <<>>
        /\ UNCHANGED <<image, state, boot, running, version, up, replies, pc, phase, job, said>>
    BY <1>7 DEF LinkDrops, deviceVars, flashVars, imageVars, updVars
  <2> QED
    BY <1>1, <1>2, <1>3, <2>1 DEF LinkMoves, FlashMoves, Started
<1> QED
  BY <1>4, <1>5, <1>6, <1>7, ServesMoves DEF Device

-----------------------------------------------------------------------------
\* A step of the page leaves the device alone.  It may take replies off the link, and
\* send what main is at.
PageMoves ==
  /\ UNCHANGED <<image, state, boot, running, version, up>>
  /\ \A i \in 1..Len(replies') :
       IsInfo(i)' => \E j \in 1..Len(replies) : IsInfo(j) /\ replies'[i] = replies[j]
  /\ OnTheWay' => OnTheWay \/ (link = "open" /\ pc.main \in SwitchSteps)
  /\ link' = "open" => link = "open" \/ replies' = <<>>

\* What it may then know, and say.
PageWords ==
  /\ Planned' => Planned /\ job' = job
  /\ pc'.main \in SwitchSteps \cup {"ask"} =>
       pc.main \in SwitchSteps \cup {"ask"} /\ job' = job /\ (link' = "open" => link = "open")
  /\ Ongoing'
  /\ pc'.confirm # "idle" /\ link' # "none" =>
       phase' = "confirming" /\ job' = job /\ link' = link /\ OfJob
  /\ said' = "confirmed" => phase' = "done" /\ job' = job /\ (~job.trial => JobKept)

\* A request of an update goes out only when the image it was planned from runs.
LEMMA PageTold ==
  ASSUME WordInv, PageMoves
  PROVE  Started' /\ Told'
<1>1. UNCHANGED <<image, state, boot, running, version, up>>
  BY DEF PageMoves
<1>2. Started'
  BY <1>1 DEF WordInv, Started
<1>3. ASSUME NEW i \in 1..Len(replies'), IsInfo(i)'
      PROVE  /\ link' = "open" => replies'[i].data.running = running'
             /\ \A j \in 1..Len(replies') : IsInfo(j)' => replies'[j].data.running = replies'[i].data.running
             /\ \A s \in Slots, v \in Versions :
                  s = replies'[i].data.running /\ v = replies'[i].data.version /\ ~replies'[i].data.pending
                    => OldKept(s, v)'
  <2>1. PICK k \in 1..Len(replies) : IsInfo(k) /\ replies'[i] = replies[k]
    BY <1>3 DEF PageMoves
  <2>2. link' = "open" => replies[k].data.running = running'
    <3>1. link' = "open" => link = "open"
      BY <1>3 DEF PageMoves
    <3> QED
      BY <1>1, <2>1, <3>1 DEF WordInv, Told
  <2>3. ASSUME NEW j \in 1..Len(replies'), IsInfo(j)'
        PROVE  replies'[j].data.running = replies[k].data.running
    <3>1. PICK l \in 1..Len(replies) : IsInfo(l) /\ replies'[j] = replies[l]
      BY <2>3 DEF PageMoves
    <3> QED
      BY <2>1, <3>1 DEF WordInv, Told
  <2>4. ASSUME NEW s \in Slots, NEW v \in Versions, s = replies[k].data.running,
               v = replies[k].data.version, ~replies[k].data.pending
        PROVE  OldKept(s, v)'
    <3>1. OldKept(s, v) /\ (link = "open" => running = s)
      BY <2>1, <2>4 DEF WordInv, Told
    <3>2. OnTheWay' => running = s
      BY <3>1 DEF PageMoves, OldKept
    <3> QED
      BY <1>1, <3>1, <3>2 DEF OldKept
  <2> QED
    BY <2>1, <2>2, <2>3, <2>4
<1> QED
  BY <1>2, <1>3 DEF Told

LEMMA PageWord ==
  ASSUME ConsoleInv, WordInv, PageMoves, PageWords
  PROVE  WordInv'
<1>1. UNCHANGED <<image, state, boot, running, version, up>>
  BY DEF PageMoves
<1>2. job \in Jobs /\ Other(job.slot) \in Slots /\ job.before \in Versions
  BY OtherSlot DEF ConsoleInv, PageInv, PageTypes, Jobs
<1>3. Started' /\ Told' /\ Ongoing'
  BY PageTold DEF PageWords
<1>4. Agreed'
  BY <1>1 DEF WordInv, Agreed, PageWords
<1>5. Remembered'
  <2> SUFFICES ASSUME Planned', ~job'.trial PROVE Remembered'
    BY DEF Remembered
  <2>1. Planned /\ job' = job /\ ~job.trial
    BY DEF PageWords
  <2>2. OldKept(Other(job.slot), job.before)
    BY <2>1 DEF WordInv, Remembered
  <2>3. OnTheWay' => running = Other(job.slot)
    BY <2>2 DEF PageMoves, OldKept, WordInv, Agreed
  <2>4. OldKept(Other(job.slot), job.before)'
    BY <1>1, <2>1, <2>2, <2>3 DEF OldKept
  <2>5. ASSUME NEW i \in 1..Len(replies'), IsInfo(i)'
        PROVE  /\ replies'[i].data.pending => replies'[i].data.running = job.slot
               /\ ~replies'[i].data.pending /\ replies'[i].data.running = job.slot => JobKept'
    <3>1. PICK k \in 1..Len(replies) : IsInfo(k) /\ replies'[i] = replies[k]
      BY <2>5 DEF PageMoves
    <3> QED
      BY <1>1, <2>1, <3>1 DEF WordInv, Remembered, JobKept
  <2> QED
    BY <2>1, <2>4, <2>5 DEF Remembered
<1>6. Confirming'
  <2> SUFFICES ASSUME pc'.confirm # "idle", link' # "none" PROVE Confirming'
    BY DEF Confirming
  <2>1. phase' = "confirming" /\ job' = job /\ link' = link /\ OfJob
    BY DEF PageWords
  <2>2. ASSUME ~job.trial, NEW i \in 1..Len(replies'), IsInfo(i)'
        PROVE  replies'[i].data.running = job.slot
    <3>1. PICK k \in 1..Len(replies) : IsInfo(k) /\ replies'[i] = replies[k]
      BY <2>2 DEF PageMoves
    <3> QED
      BY <2>1, <2>2, <3>1 DEF OfJob
  <2> QED
    BY <1>1, <2>1, <2>2 DEF Confirming, OfJob
<1>7. Said'
  BY <1>1 DEF PageWords, Said, JobKept
<1> QED
  BY <1>3, <1>4, <1>5, <1>6, <1>7 DEF WordInv

\* The reply at the head is read, and is a FW_INFO.
Heard(info) ==
  /\ replies # <<>> /\ Head(replies).type = "FW_INFO" /\ Head(replies).data = info
  /\ replies' = Tail(replies)

\* What decideOutcome(), and the read after MARK_VALID, make of it is so.
LEMMA HeardIs ==
  ASSUME ConsoleInv, WordInv, NEW info, Heard(info)
  PROVE  /\ info \in Infos
         /\ \E i \in 1..Len(replies) : IsInfo(i) /\ replies[i].data = info
         /\ Planned /\ Outcome(info) = "confirmed" => (~job.trial => JobKept)
         /\ Planned /\ Outcome(info) = "confirming" => OfJob
         /\ Planned /\ OfJob /\ ~info.pending => (~job.trial => JobKept)
<1>1. /\ replies \in Seq(Replies) /\ 1 \in 1..Len(replies) /\ replies[1] = Head(replies)
      /\ job \in Jobs
  BY Tailed DEF ConsoleInv, WireInv, DeviceTypes, PageInv, PageTypes, Heard
<1>2. IsInfo(1) /\ replies[1].data = info
  BY <1>1 DEF Heard, IsInfo
<1>3. /\ info \in Infos /\ info.running \in Slots /\ info.version \in Versions
      /\ info.pending \in BOOLEAN
  BY <1>1, <1>2, InfoTyped DEF ConsoleInv
<1>4. ASSUME Planned, ~job.trial, ~info.pending, info.version # job.before PROVE JobKept
  <2>1. OldKept(info.running, info.version) /\ OldKept(Other(job.slot), job.before)
    BY <1>1, <1>2, <1>3, <1>4 DEF WordInv, Told, Remembered
  <2>2. info.running # Other(job.slot)
    BY <1>4, <2>1 DEF OldKept
  <2>3. info.running = job.slot
    BY <1>1, <1>3, <2>2 DEF Jobs, Slots, Other
  <2> QED
    BY <1>1, <1>2, <1>4, <2>3 DEF WordInv, Remembered
<1>5. Outcome(info) = "confirmed" => ~info.pending /\ info.version # job.before
  BY <1>3 DEF Outcome
<1>6. ASSUME Planned, Outcome(info) = "confirming" PROVE OfJob
  <2>1. info.pending
    BY <1>3, <1>6, OutcomeIs
  <2>2. ~job.trial => info.running = job.slot
    BY <1>1, <1>2, <1>6, <2>1 DEF WordInv, Remembered
  <2> QED
    BY <1>1, <1>2, <2>2 DEF WordInv, Told, OfJob
<1>7. ASSUME Planned, OfJob, ~info.pending, ~job.trial PROVE JobKept
  BY <1>1, <1>2, <1>7 DEF WordInv, Remembered, OfJob
<1> QED
  BY <1>1, <1>2, <1>3, <1>4, <1>5, <1>6, <1>7

-----------------------------------------------------------------------------
\* The await of f ends; data is what the reply at the head says.
Ended(f, how, data) ==
  /\ PageMoves /\ link' = link /\ pc[f] \in Asking /\ (how = "lost" <=> link = "none")
  /\ how \in {"ok", "failed", "timeout", "lost"}
  /\ how = "ok" /\ Expected(Asks[pc[f]]) = "FW_INFO" => Heard(data)

\* A plan is made from an image that is not on trial, unless it is a Revert from one
\* that is; no FW_INFO on the link then tells of the job's slot.
LEMMA PlansWord ==
  ASSUME ConsoleInv, WordInv, NEW how, NEW info, Ended("main", how, info), Plans(how, info)
  PROVE  WordInv'
<1>1. /\ pc.main = "plan" /\ UNCHANGED <<phase, said>> /\ pc \in [Flows -> Steps]
      /\ phase = "none" /\ pc.confirm = "idle" /\ job \in Jobs
  BY DEF Plans, ConsoleInv, PageInv, PageTypes, MainPhase, ConfirmAlone
<1>2. said # "confirmed"
  BY <1>1 DEF WordInv, Said
<1>3. CASE ~(how = "ok" /\ Usable(info))
  <2>1. pc' = [pc EXCEPT !.main = "idle"] /\ job' = job
    BY <1>3 DEF Plans, Goes
  <2>2. pc'.main = "idle" /\ pc'.confirm = "idle"
    BY <1>1, <2>1 DEF Flows
  <2>3. PageWords
    BY <1>1, <1>2, <2>1, <2>2 DEF PageWords, Planned, Ongoing, SwitchSteps
  <2> QED
    BY <2>3, PageWord DEF Ended
<1>4. CASE how = "ok" /\ Usable(info)
  <2>1. Heard(info)
    BY <1>1, <1>4, ExpectedIs DEF Ended
  <2>2. /\ info \in Infos /\ info.running \in Slots /\ info.version \in Versions
        /\ info.pending \in BOOLEAN
    BY <2>1, HeardIs DEF Infos
  <2>3. PICK i \in 1..Len(replies) : IsInfo(i) /\ replies[i].data = info
    BY <2>1, HeardIs
  <2>4. /\ pc' = [pc EXCEPT !.main = "ask"]
        /\ job'.slot = Other(info.running) /\ job'.before = info.version /\ job'.trial = info.pending
    BY <1>1, <1>4 DEF Plans, Goes, Jobs
  <2>5. pc'.main = "ask" /\ pc'.confirm = "idle"
    BY <1>1, <2>4 DEF Flows
  <2>6. UNCHANGED <<image, state, boot, running, version, up>> /\ link' = link
    BY DEF Ended, PageMoves
  <2>7. Other(job'.slot) = info.running /\ job'.slot # info.running
    BY <2>2, <2>4, OtherSlot
  <2>8. Started' /\ Told'
    BY PageTold DEF Ended
  <2>9. Agreed'
    BY <2>3, <2>6, <2>7 DEF Agreed, WordInv, Told
  <2>10. Ongoing' /\ Confirming' /\ Said'
    BY <1>1, <1>2, <2>5 DEF Ongoing, Confirming, Said
  <2>11. ASSUME ~info.pending PROVE OldKept(info.running, info.version)'
    <3>1. OldKept(info.running, info.version) /\ (link = "open" => running = info.running)
      BY <2>2, <2>3, <2>11 DEF WordInv, Told
    <3> QED
      BY <2>6, <3>1 DEF OldKept, Ended, PageMoves
  <2>12. ASSUME ~info.pending, NEW k \in 1..Len(replies'), IsInfo(k)'
         PROVE  ~replies'[k].data.pending /\ replies'[k].data.running # job'.slot
    <3>1. /\ replies \in Seq(Replies) /\ replies # <<>> /\ replies' = Tail(replies)
          /\ 1 \in 1..Len(replies) /\ replies[1].type = "FW_INFO" /\ replies[1].data = info
          /\ replies'[k] = replies[k + 1] /\ k + 1 \in 1..Len(replies) /\ k + 1 > 1
      BY <2>1, <2>12, Tailed DEF Heard, ConsoleInv, WireInv, DeviceTypes
    <3>2. replies[k + 1].type = "FW_INFO"
      BY <2>12, <3>1 DEF IsInfo
    <3>3. ~replies[k + 1].data.pending
      BY <2>12, <3>1, <3>2 DEF ConsoleInv, WireInv, InfoOrder
    <3>4. replies[k + 1].data.running = info.running
      BY <2>3, <3>1, <3>2 DEF WordInv, Told, IsInfo
    <3> QED
      BY <2>7, <3>1, <3>3, <3>4
  <2>13. Remembered'
    BY <2>4, <2>7, <2>11, <2>12 DEF Remembered, OldKept
  <2> QED
    BY <2>8, <2>9, <2>10, <2>13 DEF WordInv
<1> QED
  BY <1>3, <1>4

\* The update's own function: it never says that the update is confirmed.
LEMMA MainWord ==
  ASSUME ConsoleInv, WordInv, NEW how, NEW data, Ended("main", how, data),
         \/ Writes(how)
         \/ Switches(how)
         \/ Probes(how, data)
         \/ Releases
         \/ Restarted(how)
  PROVE  PageWords
<1>1. /\ pc \in [Flows -> Steps] /\ link' = link
      /\ Planned /\ pc.main \notin {"idle", "plan", "ask"} /\ phase # "none"
  <2>1. pc.main \notin {"idle", "plan", "ask"}
    BY DEF Writes, Switches, Probes, Releases, Restarted
  <2> QED
    BY <2>1 DEF Ended, ConsoleInv, PageInv, PageTypes, Planned, WordInv, Ongoing
<1>2. pc.confirm # "idle" /\ link # "none" => pc.main \notin Uploading \cup {"restart"}
  BY DEF ConsoleInv, PageInv, ConfirmAlone
<1>3. PICK step :
        /\ pc' = [pc EXCEPT !.main = step] /\ job' = job
        /\ step \in SwitchSteps => pc.main \in SwitchSteps
        /\ step # "ask"
        /\ \/ phase' = phase /\ said' = said
           \/ pc.main # "abort" /\ phase' # "none" /\ said' # "confirmed"
  <2>1. CASE Writes(how)
    BY <1>1, <2>1 DEF Writes, Fails, Goes, Ends, SwitchSteps, updVars
  <2>2. CASE Switches(how)
    BY <1>1, <2>2 DEF Switches, AfterReboot, Fails, Goes, Ends, SwitchSteps, updVars, Ended
  <2>3. CASE Probes(how, data)
    BY <1>1, <2>3 DEF Probes, Goes, Ends, NotRestarted, SwitchSteps
  <2>4. CASE Releases
    BY <1>1, <2>4 DEF Releases, Goes, Ends, SwitchSteps
  <2>5. CASE Restarted(how)
    BY <1>1, <2>5 DEF Restarted, AfterReboot, NotRestarted, Goes, SwitchSteps
  <2> QED
    BY <2>1, <2>2, <2>3, <2>4, <2>5
<1>4. pc'.main = step /\ pc'.confirm = pc.confirm
  BY <1>1, <1>3 DEF Flows
<1>5. pc.main # "abort" => pc.main \in Uploading \cup {"restart"}
  BY DEF Writes, Switches, Probes, Releases, Restarted, Uploading
<1>6. pc.confirm # "idle" /\ link # "none" =>
        phase' = "confirming" /\ OfJob
  BY <1>2, <1>3, <1>5 DEF WordInv, Confirming
<1>7. said' = "confirmed" => phase' = "done" /\ (~job.trial => JobKept)
  BY <1>3 DEF WordInv, Said
<1>8. Ongoing'
  BY <1>1, <1>3 DEF Ongoing
<1> QED
  BY <1>1, <1>3, <1>4, <1>6, <1>7, <1>8 DEF PageWords

\* The rest of a read that is reported.
LEMMA ReportsWord ==
  ASSUME ConsoleInv, WordInv, NEW info, NEW p, link' = link, Heard(info), Planned, job' = job,
         phase = "rebooting" \/ pc.report # "idle", pc.confirm = "idle",
         p.confirm = "idle", p \in [Flows -> Steps], p.main = "idle" \/ p.main = pc.main,
         Reports(info, p)
  PROVE  PageWords
<1>1. /\ info \in Infos
      /\ Outcome(info) = "confirmed" => (~job.trial => JobKept)
      /\ Outcome(info) = "confirming" => OfJob
      /\ Outcome(info) \in {"confirming", "not_restarted", "same_build", "confirmed",
                            "rolled_back", "unexpected"}
  BY HeardIs, OutcomeIs
<1>2. phase # "none" /\ phase # "done"
  BY DEF ConsoleInv, PageInv, ReportPhase
<1>3. said # "confirmed"
  BY <1>2 DEF WordInv, Said
<1>4. /\ pc'.main = p.main
      /\ Outcome(info) # "confirming" => pc'.confirm = "idle"
  BY DEF Reports, Flows
<1>5. /\ Outcome(info) = "confirming" => phase' = "confirming" /\ said' = said
      /\ Outcome(info) = "not_restarted" => phase' = "switched_no_restart" /\ said' = "not_restarted"
      /\ Outcome(info) \notin {"confirming", "not_restarted"} => phase' = "done" /\ said' = Outcome(info)
  BY DEF Reports, NotRestarted, Ends
<1>6. phase' # "none"
  BY <1>1, <1>5
<1> QED
  BY <1>1, <1>3, <1>4, <1>5, <1>6 DEF PageWords, Ongoing, SwitchSteps

\* onUpdateReconnected(), for the caller's flow.
LEMMA ReconnectedWord ==
  ASSUME ConsoleInv, WordInv, NEW f \in {"main", "conn"}, NEW how, NEW data, Ended(f, how, data),
         pc[f] \in {"reread", "info"}, UpdateReconnected(how, data, [pc EXCEPT ![f] = "idle"])
  PROVE  PageWords
<1> DEFINE p == [pc EXCEPT ![f] = "idle"]
<1>1. /\ pc \in [Flows -> Steps] /\ job' = job /\ link' = link /\ f \in Flows
      /\ "idle" \in Steps
  BY DEF UpdateReconnected, ConsoleInv, PageInv, PageTypes, Ended, Flows, Steps
<1>2. /\ p \in [Flows -> Steps] /\ p.confirm = pc.confirm
      /\ p.main = "idle" \/ p.main = pc.main
  BY <1>1 DEF Flows
<1>3. CASE phase # "rebooting" \/ pc.report # "idle"
  <2>1. pc' = p /\ phase' = phase /\ said' = said
    BY <1>3 DEF UpdateReconnected
  <2>2. Planned' => Planned
    BY <1>2, <2>1 DEF Planned
  <2>3. Ongoing'
    BY <1>2, <2>1 DEF WordInv, Ongoing
  <2> QED
    BY <1>1, <1>2, <2>1, <2>2, <2>3 DEF WordInv, Confirming, Said, PageWords, SwitchSteps
<1>4. CASE phase = "rebooting" /\ pc.report = "idle"
  <2>1. Planned /\ said # "confirmed" /\ (link # "none" => pc.confirm = "idle")
    BY <1>4 DEF Planned, WordInv, Said, Confirming
  <2>2. CASE how = "ok"
    <3>1. Heard(data)
      BY <2>2, ExpectedIs DEF Ended
    <3>2. link # "none" /\ Reports(data, p)
      BY <1>4, <2>2 DEF Ended, UpdateReconnected
    <3> QED
      BY <1>1, <1>2, <1>4, <2>1, <3>1, <3>2, ReportsWord
  <2>3. CASE how # "ok" /\ Here
    <3>1. pc' = [p EXCEPT !.report = "sleep"] /\ phase' = phase /\ said' = said
      BY <1>4, <2>3 DEF UpdateReconnected
    <3>2. pc'.main = p.main /\ pc'.confirm = pc.confirm
      BY <1>2, <3>1 DEF Flows
    <3> QED
      BY <1>1, <1>2, <1>4, <2>1, <2>3, <3>1, <3>2 DEF PageWords, Planned, Ongoing, SwitchSteps, Here
  <2>4. CASE how # "ok" /\ ~Here
    <3>1. pc' = p /\ phase' = "done" /\ said' = "no_device"
      BY <1>4, <2>4 DEF UpdateReconnected, Ends
    <3> QED
      BY <1>1, <1>2, <2>1, <2>4, <3>1 DEF PageWords, Planned, Ongoing, SwitchSteps, Here
  <2> QED
    BY <2>2, <2>3, <2>4
<1> QED
  BY <1>3, <1>4

LEMMA ReadsAgainWord ==
  ASSUME ConsoleInv, WordInv, NEW how, NEW data, Ended("report", how, data), ReadsAgain(how, data)
  PROVE  PageWords
<1> DEFINE p == [pc EXCEPT !.report = "idle"]
<1>1. /\ pc \in [Flows -> Steps] /\ job' = job /\ link' = link /\ pc.report = "retry" /\ "idle" \in Steps
      /\ phase \in {"rebooting", "switched_no_restart"} /\ pc.confirm = "idle"
  BY DEF ReadsAgain, ConsoleInv, PageInv, PageTypes, ReportPhase, ConfirmAlone, Ended, Steps
<1>2. p \in [Flows -> Steps] /\ p.confirm = "idle" /\ p.main = pc.main
  BY <1>1 DEF Flows
<1>3. Planned /\ said # "confirmed"
  BY <1>1 DEF Planned, WordInv, Said
<1>4. CASE how = "ok"
  <2>1. Heard(data) /\ Reports(data, p)
    BY <1>1, <1>4, ExpectedIs DEF Ended, ReadsAgain
  <2> QED
    BY <1>1, <1>2, <1>3, <2>1, ReportsWord
<1>5. CASE how # "ok"
  <2>1. /\ pc'.main = pc.main /\ pc'.confirm = "idle"
        /\ (phase' = phase /\ said' = said) \/ (phase' = "done" /\ said' = "no_device")
    BY <1>1, <1>2, <1>5 DEF ReadsAgain, Goes, Ends, Flows
  <2> QED
    BY <1>1, <1>3, <2>1 DEF PageWords, Planned, Ongoing
<1> QED
  BY <1>4, <1>5

\* confirmFlashedImage(): "confirmed" is said of the image that the checks are about.
LEMMA ConfirmsWord ==
  ASSUME ConsoleInv, WordInv, NEW how, NEW data, Ended("confirm", how, data), Confirms(how, data)
  PROVE  PageWords
<1>1. /\ pc \in [Flows -> Steps] /\ job' = job /\ link' = link /\ pc.confirm # "idle"
      /\ phase # "none" /\ Planned
      /\ how = "lost" <=> link = "none"
  BY AskingIs DEF Confirms, ConsoleInv, PageInv, PageTypes, Ended, WordInv, Ongoing, Planned
<1>2. PICK step :
        /\ pc' = [pc EXCEPT !.confirm = step]
        /\ \/ phase' = phase /\ said' = said /\ (link = "none" => step = "idle")
           \/ step = "idle" /\ phase' = "waiting_rollback" /\ said' = said /\ link # "none"
           \/ step = "idle" /\ phase' = "done" /\ said' = "not_confirmed"
           \/ /\ step = "idle" /\ phase' = "done" /\ said' = "confirmed" /\ how = "ok"
              /\ \/ pc.confirm = "firmware" /\ Outcome(data) = "confirmed"
                 \/ pc.confirm = "verify" /\ ~data.pending
  <2>1. CASE how = "lost"
    BY <1>1, <2>1 DEF Confirms, NextCheck, Goes
  <2>2. CASE how # "lost" /\ ChecksDevice(how, data)
    BY <1>1, <2>2 DEF ChecksDevice, CheckFails, NextCheck, Confirmed, Ends, Goes
  <2>3. CASE how # "lost" /\ ChecksProtocol(how)
    BY <1>1, <2>3 DEF ChecksProtocol, CheckFails, NextCheck, Goes
  <2>4. CASE how # "lost" /\ ChecksSensor(how, data)
    BY <1>1, <2>4 DEF ChecksSensor, CheckFails, NextCheck, Goes
  <2>5. CASE how # "lost" /\ MarksValid(how, data)
    BY <1>1, <2>5 DEF MarksValid, NextCheck, NotConfirmed, Confirmed, Ends, Goes
  <2> QED
    BY <2>1, <2>2, <2>3, <2>4, <2>5 DEF Confirms
<1>3. pc'.main = pc.main /\ pc'.confirm = step
  BY <1>1, <1>2 DEF Flows
<1>4. link # "none" => phase = "confirming" /\ OfJob
  BY <1>1 DEF WordInv, Confirming
<1>5. said' = "confirmed" => phase' = "done" /\ (~job.trial => JobKept)
  <2>1. ASSUME how = "ok", pc.confirm = "firmware", Outcome(data) = "confirmed"
        PROVE  ~job.trial => JobKept
    <3>1. Heard(data)
      BY <2>1, ExpectedIs DEF Ended
    <3> QED
      BY <1>1, <2>1, <3>1, HeardIs
  <2>2. ASSUME how = "ok", pc.confirm = "verify", ~data.pending
        PROVE  ~job.trial => JobKept
    <3>1. Heard(data) /\ OfJob
      BY <1>1, <1>4, <2>2, ExpectedIs DEF Ended
    <3> QED
      BY <1>1, <2>2, <3>1, HeardIs
  <2>3. said = "confirmed" => phase = "done" /\ (~job.trial => JobKept)
    BY DEF WordInv, Said
  <2>4. said = "confirmed" => link = "none"
    BY <1>4, <2>3
  <2> QED
    BY <1>2, <2>1, <2>2, <2>3, <2>4
<1>6. phase' # "none"
  BY <1>1, <1>2
<1> QED
  BY <1>1, <1>2, <1>3, <1>4, <1>5, <1>6 DEF PageWords, Ongoing

LEMMA HandWord ==
  ASSUME ConsoleInv, WordInv, NEW how, NEW data, Ended("hand", how, data), MarksByHand(how, data)
  PROVE  PageWords
<1>1. pc \in [Flows -> Steps] /\ job' = job /\ link' = link
  BY DEF MarksByHand, ConsoleInv, PageInv, PageTypes, Ended
<1>2. /\ pc'.main = pc.main /\ pc'.confirm = pc.confirm
      /\ \/ phase' = phase /\ said' = said
         \/ phase = "waiting_rollback" /\ phase' = "done" /\ said' = "by_hand"
  BY <1>1 DEF MarksByHand, Goes, Ends, Flows
<1> QED
  BY <1>1, <1>2 DEF PageWords, Planned, Ongoing, WordInv, Confirming, Said

LEMMA ResumesWord ==
  ASSUME ConsoleInv, WordInv, NEW f \in Flows, NEW how, NEW data, Ended(f, how, data),
         Resumes(f, how, data)
  PROVE  WordInv'
<1>1. CASE f = "main" /\ Plans(how, data)
  BY <1>1, PlansWord
<1>2. CASE f = "main" /\ Rereads(how, data)
  BY <1>2, ReconnectedWord, PageWord DEF Rereads, Ended
<1>3. CASE f = "main" /\ ~Plans(how, data) /\ ~Rereads(how, data)
  BY <1>3, MainWord, PageWord DEF Resumes, Ended
<1>4. CASE f = "conn"
  BY <1>4, ReconnectedWord, PageWord DEF Resumes, Informs, Ended
<1>5. CASE f = "report"
  BY <1>5, ReadsAgainWord, PageWord DEF Resumes, Ended
<1>6. CASE f = "confirm"
  BY <1>6, ConfirmsWord, PageWord DEF Resumes, Ended
<1>7. CASE f = "hand"
  BY <1>7, HandWord, PageWord DEF Resumes, Ended
<1> QED
  BY <1>1, <1>2, <1>3, <1>4, <1>5, <1>6, <1>7 DEF Flows

-----------------------------------------------------------------------------
\* A request of an update is main's.
LEMMA SwitchIsMain ==
  ASSUME ConsoleInv, NEW f \in Flows, pc[f] \in Asking, OnTheLink(Asks[pc[f]])
  PROVE  OnTheWay' => OnTheWay \/ (link = "open" /\ pc.main \in SwitchSteps)
<1>1. requests \in Seq(Requests) /\ Asks[pc[f]] \in Requests /\ pc[f] \in StepsOf[f]
  BY AskingIs DEF ConsoleInv, WireInv, DeviceTypes, PageInv, OwnSteps
<1>2. Asks[pc[f]] \in Switching => pc[f] \in SwitchSteps
  BY AskingIs DEF Asks, Switching, SwitchSteps
<1>3. pc[f] \in SwitchSteps => f = "main"
  BY <1>1 DEF StepsOf, SwitchSteps, Flows
<1>4. CASE link = "open"
  <2>1. /\ requests' = Append(requests, Asks[pc[f]])
    BY <1>4 DEF OnTheLink
  <2>2. \A i \in 1..Len(requests') :
           (i \in 1..Len(requests) /\ requests'[i] = requests[i]) \/ requests'[i] = Asks[pc[f]]
    BY <1>1, <2>1, Appended
  <2> QED
    BY <1>2, <1>3, <1>4, <2>2 DEF OnTheWay
<1>5. CASE link # "open"
  BY <1>5 DEF OnTheLink, OnTheWay
<1> QED
  BY <1>4, <1>5

LEMMA PageTakes ==
  ASSUME ConsoleInv, UNCHANGED deviceVars, link' = link,
         replies' = replies \/ (replies # <<>> /\ replies' = Tail(replies)),
         \/ requests' = requests
         \/ \E f \in Flows : pc[f] \in Asking /\ OnTheLink(Asks[pc[f]])
  PROVE  PageMoves
<1>1. UNCHANGED <<image, state, boot, running, version, up>>
  BY DEF deviceVars, flashVars, imageVars
<1>2. OnTheWay' => OnTheWay \/ (link = "open" /\ pc.main \in SwitchSteps)
  BY SwitchIsMain DEF OnTheWay
<1>3. ASSUME NEW i \in 1..Len(replies'), IsInfo(i)'
      PROVE  \E j \in 1..Len(replies) : IsInfo(j) /\ replies'[i] = replies[j]
  <2>1. replies \in Seq(Replies)
    BY DEF ConsoleInv, WireInv, DeviceTypes
  <2>2. PICK j \in 1..Len(replies) : replies'[i] = replies[j]
    <3>1. CASE replies' = replies
      BY <1>3, <3>1
    <3>2. CASE replies # <<>> /\ replies' = Tail(replies)
      <4>1. i + 1 \in 1..Len(replies) /\ replies'[i] = replies[i + 1]
        BY <1>3, <2>1, <3>2, Tailed
      <4> QED
        BY <4>1
    <3> QED
      BY <3>1, <3>2
  <2> QED
    BY <1>3, <2>2 DEF IsInfo
<1> QED
  BY <1>1, <1>2, <1>3 DEF PageMoves

\* Nothing of the update changes.
LEMMA NothingSaid ==
  ASSUME WordInv, UNCHANGED <<phase, job, said>>, link' = link,
         pc'.main = pc.main, pc'.confirm = pc.confirm
  PROVE  PageWords
BY DEF PageWords, WordInv, Planned, Ongoing, Confirming, Said

LEMMA RunsWord ==
  ASSUME ConsoleInv, WordInv, NEW f \in Flows, Sends(f) \/ Lost(f)
  PROVE  WordInv'
<1>1. CASE Sends(f)
  <2>1. /\ UNCHANGED deviceVars /\ UNCHANGED <<link, replies, pc, phase, job, said>>
        /\ OnTheLink(Asks[pc[f]]) /\ waiting # <<>> /\ Head(waiting) = f
    BY <1>1 DEF Sends, updVars
  <2>2. pc[f] \in Asking
    <3>1. 1 \in 1..Len(waiting) /\ waiting[1] = f
      BY <2>1, Tailed DEF ConsoleInv, PageInv, PageTypes
    <3> QED
      BY <3>1 DEF ConsoleInv, PageInv, Queued
  <2>3. PageMoves
    BY <2>1, <2>2, PageTakes
  <2> QED
    BY <2>1, <2>3, NothingSaid, PageWord
<1>2. CASE Lost(f)
  <2>1. /\ UNCHANGED deviceVars /\ UNCHANGED <<link, requests, replies>>
        /\ link = "none" /\ pc[f] \in Asking /\ Resumes(f, "lost", NoData)
    BY <1>2 DEF Lost, linkVars
  <2>2. Ended(f, "lost", NoData)
    BY <2>1, PageTakes DEF Ended
  <2> QED
    BY <2>1, <2>2, ResumesWord
<1> QED
  BY <1>1, <1>2

\* A reply, or a timeout.
LEMMA RepliesWord ==
  ASSUME ConsoleInv, WordInv, Receives \/ TimesOut \/ Unsolicited
  PROVE  WordInv'
<1>1. /\ UNCHANGED deviceVars /\ link' = link /\ link # "none"
      /\ replies' = replies \/ (replies # <<>> /\ replies' = Tail(replies))
  BY DEF Receives, TimesOut, Unsolicited, Here
<1>2. txn # NoTxn => txn.by \in Flows /\ pc[txn.by] \in Asking
  BY DEF ConsoleInv, PageInv, PageTypes, Queued, NoTxn
<1>3. CASE Retried
  <2>1. PageMoves
    BY <1>1, <1>2, <1>3, PageTakes DEF Retried
  <2> QED
    BY <1>1, <1>3, <2>1, NothingSaid, PageWord DEF Retried, updVars
<1>4. CASE Unsolicited
  <2>1. requests' = requests /\ UNCHANGED <<pc, phase, job, said>>
    BY <1>4 DEF Unsolicited, updVars
  <2> QED
    BY <1>1, <2>1, PageTakes, NothingSaid, PageWord
<1>5. ASSUME NEW how \in {"ok", "failed", "timeout"}, NEW data, txn # NoTxn, requests' = requests,
             Resumes(txn.by, how, data),
             how = "ok" /\ Expected(Asks[pc[txn.by]]) = "FW_INFO" => Heard(data)
      PROVE  WordInv'
  <2>1. Ended(txn.by, how, data)
    BY <1>1, <1>2, <1>5, PageTakes DEF Ended
  <2> QED
    BY <1>2, <1>5, <2>1, ResumesWord
<1>6. CASE Receives /\ ~Retried
  <2>1. txn # NoTxn /\ Head(replies).type \in {Expected(Asks[pc[txn.by]]), "ERROR"}
    BY <1>6 DEF Receives, Answers
  <2>2. CASE Head(replies).type # "ERROR"
    BY <1>5, <1>6, <2>1, <2>2 DEF Receives, Heard
  <2>3. CASE Head(replies).type = "ERROR"
    BY <1>5, <1>6, <2>1, <2>3 DEF Receives
  <2> QED
    BY <2>2, <2>3
<1>7. CASE TimesOut /\ ~Retried
  BY <1>5, <1>7 DEF TimesOut
<1> QED
  BY <1>3, <1>4, <1>6, <1>7

\* Timers, and the link that goes.
LEMMA TimersWord ==
  ASSUME ConsoleInv, WordInv,
         DropSeen \/ DropWaitOver \/ Wakes \/ DiscoveryOver \/ GivesUp \/ TransportGone
  PROVE  WordInv'
<1>1. /\ UNCHANGED deviceVars /\ requests' = requests /\ job' = job /\ pc \in [Flows -> Steps]
      /\ replies' = replies \/ replies' = <<>>
      /\ link' = link \/ link' = "none"
  BY DEF DropSeen, DropWaitOver, Wakes, DiscoveryOver, GivesUp, TransportGone, linkVars, updVars,
         ConsoleInv, PageInv, PageTypes
<1>2. PageMoves
  BY <1>1 DEF PageMoves, IsInfo, OnTheWay, deviceVars, flashVars, imageVars
<1>3. CASE DropSeen \/ DropWaitOver
  <2>1. /\ UNCHANGED <<link, phase, said>> /\ pc.main = "drop_wait" /\ pc'.confirm = pc.confirm
        /\ pc'.main \in {"idle", "reread"}
    BY <1>1, <1>3 DEF DropSeen, DropWaitOver, linkVars, updVars, Goes, Flows
  <2>2. PageWords
    BY <1>1, <2>1 DEF PageWords, Planned, Ongoing, WordInv, Confirming, Said, SwitchSteps
  <2> QED
    BY <1>2, <2>2, PageWord
<1>4. CASE Wakes
  <2>1. /\ link' = link /\ pc'.main = pc.main /\ pc'.confirm = pc.confirm
        /\ \/ phase' = phase /\ said' = said
           \/ ~Here /\ phase' = "done" /\ said' = "no_device"
    BY <1>1, <1>4 DEF Wakes, Goes, Ends, linkVars, Flows
  <2>2. phase \in {"rebooting", "switched_no_restart"}
    BY <1>4 DEF Wakes, ConsoleInv, PageInv, ReportPhase
  <2>3. PageWords
    BY <1>1, <2>1, <2>2 DEF PageWords, Planned, Ongoing, WordInv, Confirming, Said, Here
  <2> QED
    BY <1>2, <2>3, PageWord
<1>5. CASE DiscoveryOver
  <2>1. UNCHANGED <<link, phase, said>> /\ pc'.main = pc.main /\ pc'.confirm = pc.confirm
    BY <1>1, <1>5 DEF DiscoveryOver, linkVars, updVars, Goes, Flows
  <2> QED
    BY <1>1, <1>2, <2>1, NothingSaid, PageWord
<1>6. CASE GivesUp
  <2>1. /\ UNCHANGED <<link, pc, phase>> /\ link = "none"
        /\ said' = said \/ said' = "gave_up"
    BY <1>6 DEF GivesUp, linkVars
  <2>2. PageWords
    BY <1>1, <2>1 DEF PageWords, Planned, Ongoing, WordInv, Confirming, Said
  <2> QED
    BY <1>2, <2>2, PageWord
<1>7. CASE TransportGone
  <2>1. /\ link' = "none" /\ pc'.confirm = pc.confirm
        /\ pc'.main = pc.main \/ (pc.main = "ask" /\ pc'.main = "idle")
        /\ pc'.main # "ask"
        /\ \/ phase' = phase /\ said' = said
           \/ phase # "none" /\ phase' = "rebooting" /\ said' = "nothing"
    BY <1>1, <1>7 DEF TransportGone, Flows
  <2>2. PageWords
    BY <1>1, <2>1 DEF PageWords, Planned, Ongoing, WordInv, Said, SwitchSteps
  <2> QED
    BY <1>2, <2>2, PageWord
<1> QED
  BY <1>3, <1>4, <1>5, <1>6, <1>7

\* A new link: main is at no request, and no check is on.
LEMMA ConnectsWord ==
  ASSUME ConsoleInv, WordInv, ~MustRun, Connects
  PROVE  WordInv'
<1>1. /\ link = "none" /\ link' = "open" /\ pc' = [pc EXCEPT !.conn = "discover"]
      /\ UNCHANGED deviceVars /\ UNCHANGED <<requests, replies, phase, job, said>>
      /\ pc \in [Flows -> Steps] /\ replies = <<>> /\ pc.main # "ask"
  BY DEF Connects, Goes, updVars, ConsoleInv, PageInv, PageTypes, WireInv, Linked
<1>2. \A f \in Flows : pc[f] \notin Asking
  BY <1>1 DEF MustRun, Here
<1>3. pc.confirm = "idle" /\ pc.main \notin SwitchSteps
  BY <1>2, AskingIs DEF ConsoleInv, PageInv, OwnSteps, StepsOf, Flows, SwitchSteps
<1>4. pc'.main = pc.main /\ pc'.confirm = "idle"
  BY <1>1, <1>3 DEF Flows
<1>5. PageMoves
  BY <1>1 DEF PageMoves, IsInfo, OnTheWay, deviceVars, flashVars, imageVars
<1>6. PageWords
  BY <1>1, <1>3, <1>4 DEF PageWords, Planned, Ongoing, WordInv, Said
<1> QED
  BY <1>5, <1>6, PageWord

LEMMA PersonWord ==
  ASSUME ConsoleInv, WordInv, ~MustRun, Person
  PROVE  WordInv'
<1>1. CASE PersonConnects
  BY <1>1, ConnectsWord DEF PersonConnects
<1>2. CASE ~PersonConnects
  <2>1. /\ UNCHANGED deviceVars /\ UNCHANGED <<link, requests, replies>>
        /\ pc \in [Flows -> Steps]
    BY <1>2 DEF Person, StartsUpdate, Agrees, Declines, RestartNow, PressMarkValid, linkVars,
                ConsoleInv, PageInv, PageTypes
  <2>2. PageMoves
    BY <2>1, PageTakes
  <2>3. pc.main = "ask" => phase = "none" /\ pc.confirm = "idle"
    BY DEF ConsoleInv, PageInv, MainPhase, ConfirmAlone
  <2>4. CASE \E kind \in {"flash", "revert"} : StartsUpdate(kind)
    <3>1. /\ pc'.main = "plan" /\ pc'.confirm = "idle" /\ phase' = "none" /\ said' = "nothing"
      BY <2>1, <2>4 DEF StartsUpdate, Busy, Goes, Flows
    <3>2. PageWords
      BY <3>1 DEF PageWords, Planned, Ongoing, SwitchSteps
    <3> QED
      BY <2>2, <3>2, PageWord
  <2>5. CASE Agrees
    <3>1. /\ pc.main = "ask" /\ pc'.main \in {"begin", "revert"} /\ pc'.confirm = pc.confirm
          /\ phase' = "running" /\ said' = said /\ job' = job
      BY <2>1, <2>5 DEF Agrees, Goes, Flows
    <3>2. said # "confirmed"
      BY <2>3, <3>1 DEF WordInv, Said
    <3>3. PageWords
      BY <2>1, <2>3, <3>1, <3>2 DEF PageWords, Planned, Ongoing, SwitchSteps
    <3> QED
      BY <2>2, <3>3, PageWord
  <2>6. CASE Declines
    <3>1. /\ pc.main = "ask" /\ pc'.main = "idle" /\ pc'.confirm = pc.confirm
          /\ UNCHANGED <<phase, said, job>>
      BY <2>1, <2>6 DEF Declines, Goes, Flows, updVars
    <3>2. PageWords
      BY <2>1, <2>3, <3>1 DEF PageWords, Planned, Ongoing, SwitchSteps, WordInv, Said
    <3> QED
      BY <2>2, <3>2, PageWord
  <2>7. CASE RestartNow
    <3>1. /\ pc'.main = "restart" /\ pc'.confirm = "idle" /\ phase = "switched_no_restart"
          /\ phase' = "rebooting" /\ said' = "nothing" /\ job' = job
      BY <2>1, <2>7 DEF RestartNow, Busy, Goes, Flows
    <3>2. PageWords
      BY <3>1 DEF PageWords, Planned, Ongoing, SwitchSteps
    <3> QED
      BY <2>2, <3>2, PageWord
  <2>8. CASE PressMarkValid
    <3>1. UNCHANGED <<phase, said, job>> /\ pc'.main = pc.main /\ pc'.confirm = pc.confirm
      BY <2>1, <2>8 DEF PressMarkValid, Goes, Flows, updVars
    <3> QED
      BY <2>1, <2>2, <3>1, NothingSaid, PageWord
  <2> QED
    BY <1>2, <2>4, <2>5, <2>6, <2>7, <2>8 DEF Person
<1> QED
  BY <1>1, <1>2

LEMMA WordInvNext ==
  ASSUME ConsoleInv, ConsoleInv', BootInv, WordInv, [Next]_vars
  PROVE  WordInv'
<1>1. CASE Runs
  BY <1>1, RunsWord DEF Runs
<1>2. CASE Device \/ Crashes \/ LinkDrops
  BY <1>2, DeviceMoves, DeviceWord DEF WordInv
<1>3. CASE ~MustRun /\ Console
  BY <1>3, RepliesWord, TimersWord, ConnectsWord DEF Console, AutoConnects
<1>4. CASE ~MustRun /\ Person
  BY <1>4, PersonWord
<1>5. CASE UNCHANGED vars
  <2>1. /\ UNCHANGED deviceVars
        /\ UNCHANGED <<link, requests, replies, pc, phase, job, said>>
    BY <1>5 DEF vars, linkVars, updVars
  <2> QED
    BY <2>1, PageTakes, NothingSaid, PageWord
<1> QED
  BY <1>1, <1>2, <1>3, <1>4, <1>5 DEF Next

LEMMA WordInvInit == Init => WordInv
<1> SUFFICES ASSUME Init PROVE WordInv
  OBVIOUS
<1>1. /\ boot = running /\ requests = <<>> /\ replies = <<>>
      /\ phase = "none" /\ said = "nothing" /\ pc = [f \in Flows |-> "idle"]
  BY DEF Init
<1>2. pc.main = "idle" /\ pc.confirm = "idle"
  BY <1>1 DEF Flows
<1>3. Started /\ Told /\ Ongoing /\ Agreed
  BY <1>1, <1>2 DEF Started, Told, Ongoing, Agreed, SwitchSteps
<1>4. Remembered /\ Confirming /\ Said
  BY <1>1, <1>2 DEF Remembered, Planned, Confirming, Said
<1> QED
  BY <1>3, <1>4 DEF WordInv

\* "Update confirmed" (decideOutcome(), confirmFlashedImage()) is said only of an image
\* that the device has marked valid and is set to start, and it stays so while the page
\* says it: whatever reply is lost, late, or the answer to another request, and however
\* often the device restarts.  Neither the number of late replies nor that of the
\* versions is bounded.
THEOREM ConfirmedMeansKeptCorrect == Spec => []ConfirmedMeansKept
<1>1. ConsoleInv => FlashTypeOK
  BY DEF ConsoleInv, WireInv, DeviceTypes
<1>2. Init => BootInv /\ WordInv
  BY BootInvInit, WordInvInit
<1>3. ConsoleInv /\ BootInv /\ [Next]_vars => BootInv'
  BY <1>1, BootInvNext
<1>4. ConsoleInv /\ ConsoleInv' /\ BootInv /\ WordInv /\ [Next]_vars => WordInv'
  BY WordInvNext
<1>5. WordInv => ConfirmedMeansKept
  BY DEF WordInv, Said, JobKept, ConfirmedMeansKept
<1> QED
  BY <1>2, <1>3, <1>4, <1>5, ConsoleInvariant, PTL DEF Spec

-----------------------------------------------------------------------------
\* What follows is about a link on which one message at most is late: MaxInFlight <= 1.

\* A request that expects OK is sent once; one message of another transaction may be on
\* the link.
Once == txn.by = "main" /\ txn.left > 0 => pc.main \in {"plan", "probe", "reread"}
OneLate == Len(requests) + Len(replies) <= IF txn = NoTxn THEN 1 ELSE 2

\* The Mark valid button was pressed before the update was begun: what it asks is asked,
\* and answered, before main's first request after the plan.
HandAhead ==
  /\ txn.by = "main" => pc.hand = "idle"
  /\ \A i, j \in 1..Len(waiting) : waiting[i] = "main" /\ waiting[j] = "hand" => j < i
HandFirst ==
  link # "none" =>
    /\ pc.hand # "idle" => txn.by = "hand" \/ \E i \in 1..Len(waiting) : waiting[i] = "hand"
    /\ (pc.main = "plan" /\ pc.hand = "hand") \/ pc.main \in Uploading => HandAhead
    /\ pc.main \in {"ask"} \cup Uploading => pc.hand # "hand"
    /\ pc.main \in {"data", "finish", "probe", "release"} => pc.hand = "idle"

\* While the plan is asked for, what is late is the first message on the link; from the
\* plan on every message is about FW_INFO, until main's request, which is the last.
Planning ==
  pc.main = "plan" /\ txn.by = "main" =>
    /\ \A i \in 1..Len(replies) : i > 1 => IsInfo(i)
    /\ \A i \in 1..Len(requests) : i > 1 \/ replies # <<>> => requests[i] = "GET_FW_INFO"
OnlyInfos ==
  /\ \A i \in 1..Len(replies) : IsInfo(i)
  /\ \A i \in 1..Len(requests) : requests[i] = "GET_FW_INFO"
NoInfos ==
  /\ \A i \in 1..Len(replies) : ~IsInfo(i)
  /\ \A i \in 1..Len(requests) : requests[i] # "GET_FW_INFO"
Planned1 == pc.main = "ask" \/ (pc.main = "begin" /\ txn.by # "main") => OnlyInfos
OwnLast ==
  pc.main \in {"begin", "data", "finish"} =>
    /\ \A i \in 1..Len(requests) : requests[i] # "GET_FW_INFO" =>
         requests[i] = Asks[pc.main] /\ i = Len(requests) /\ txn.by = "main"
    /\ \A i \in 1..Len(replies) : ~IsInfo(i) =>
         replies[i].type \in {"OK", "ERROR"} /\ i = Len(replies) /\ requests = <<>> /\ txn.by = "main"
    /\ pc.main # "begin" => NoInfos

\* What answers the probe was sent after OTA_FINISH had been handled.
FinishFirst ==
  pc.main = "probe" /\ job.kind = "flash" =>
    /\ \A i \in 1..Len(requests) : requests[i] \in {"GET_FW_INFO", "OTA_FINISH"}
    /\ \A i \in 1..Len(requests) : requests[i] = "OTA_FINISH" =>
         /\ i = 1 /\ (txn.by = "main" => Len(requests) > 1)
         /\ \A k \in 1..Len(replies) : ~IsInfo(k)
    /\ txn.by # "main" => NoInfos

Kinds ==
  /\ \A i \in 1..Len(requests) : requests[i] = "OTA_FINISH" =>
       pc.main \in {"finish", "probe"} /\ job.kind = "flash"
  /\ pc.main \in {"begin", "data", "finish", "release"} => job.kind = "flash"
  /\ pc.main = "revert" => job.kind = "revert"

MatchInv == Once /\ OneLate /\ HandFirst /\ Planning /\ Planned1 /\ OwnLast /\ FinishFirst /\ Kinds

\* Nothing on the link: the conjuncts about what is on it hold.
LEMMA NothingLate ==
  ASSUME requests = <<>>, replies = <<>>
  PROVE  OneLate /\ Planning /\ Planned1 /\ OwnLast /\ FinishFirst
BY DEF OneLate, Planning, Planned1, OwnLast, FinishFirst, OnlyInfos, NoInfos

-----------------------------------------------------------------------------
\* The request at the head is handled, and its reply sent or lost.
Handles(reply) ==
  /\ requests # <<>> /\ requests' = Tail(requests) /\ link' = link
  /\ replies' \in {replies, Append(replies, reply)}
  /\ reply.type = "FW_INFO" <=> Head(requests) = "GET_FW_INFO"
  /\ Head(requests) \in {"OTA_BEGIN", "OTA_DATA", "OTA_FINISH"} => reply.type \in {"OK", "ERROR"}
  /\ reply.type = "OK" /\ Head(requests) = "OTA_BEGIN" =>
       version[Other(running)]' = job.version

\* Whatever the device answers, it takes one request and leaves the page as it is.
LEMMA ServesHandles ==
  ASSUME ConsoleInv, Serves
  PROVE  /\ UNCHANGED <<waiting, txn, pc, phase, job, said, updates>>
         /\ \E reply \in Replies : Handles(reply)
<1> PICK sent \in BOOLEAN :
      \/ AnswerFwInfo(sent)
      \/ AnswerState(sent)
      \/ \E sensor \in Sensor : AnswerDiagnostics(sent, sensor)
      \/ Refuse(sent)
      \/ AnswerBegin(sent)
      \/ AnswerData(sent)
      \/ AnswerFinish(sent)
      \/ AnswerRevert(sent)
      \/ AnswerAbort(sent)
      \/ AnswerRestart(sent)
      \/ AnswerMarkValid(sent)
  BY DEF Serves
<1>0. /\ running \in Slots /\ Other(running) \in Slots /\ image \in [Slots -> Images]
      /\ version \in [Slots -> Versions] /\ FlashTypeOK
  BY OtherSlot DEF ConsoleInv, WireInv, DeviceTypes, FlashTypeOK
<1>1. ASSUME NEW request, NEW reply, Answer(request, sent, reply)
      PROVE  /\ UNCHANGED <<waiting, txn, pc, phase, job, said, updates, link>>
             /\ requests # <<>> /\ requests' = Tail(requests) /\ Head(requests) = request
             /\ replies' \in {replies, Append(replies, reply)}
  BY <1>1 DEF Answer, consoleVars, updVars
<1>2. CASE AnswerFwInfo(sent)
  <2> DEFINE reply == [type |-> "FW_INFO", data |-> FwInfo]
  <2>1. reply \in Replies
    BY <1>0, FwInfoTyped DEF Replies
  <2>2. Answer("GET_FW_INFO", sent, reply)
    BY <1>2 DEF AnswerFwInfo
  <2> QED
    BY <1>1, <2>1, <2>2 DEF Handles
<1>3. ASSUME NEW type \in {"OK", "ERROR", "STATE"}, NEW request, Answer(request, sent, Plain(type)),
             request # "GET_FW_INFO", request = "OTA_BEGIN" => type = "ERROR" \/ AnswerBegin(sent),
             request \in {"OTA_BEGIN", "OTA_DATA", "OTA_FINISH"} => type # "STATE"
      PROVE  /\ UNCHANGED <<waiting, txn, pc, phase, job, said, updates>>
             /\ \E reply \in Replies : Handles(reply)
  <2>1. Plain(type) \in Replies /\ Plain(type).type = type
    BY DEF Plain, Replies
  <2>2. AnswerBegin(sent) =>
       version[Other(running)]' = job.version
    <3>1. AnswerBegin(sent) => running' = running
      BY DEF AnswerBegin, EraseOther
    <3> QED
      BY <1>0, <3>1 DEF AnswerBegin, EraseOther
  <2> QED
    BY <1>1, <1>3, <2>1, <2>2 DEF Handles
<1>4. CASE AnswerState(sent)
  BY <1>3, <1>4 DEF AnswerState
<1>5. ASSUME NEW sensor \in Sensor, AnswerDiagnostics(sent, sensor)
      PROVE  /\ UNCHANGED <<waiting, txn, pc, phase, job, said, updates>>
             /\ \E reply \in Replies : Handles(reply)
  <2> DEFINE reply == [type |-> "DIAGNOSTICS", data |-> sensor]
  <2>1. reply \in Replies
    BY DEF Replies
  <2>2. Answer("GET_DIAGNOSTICS", sent, reply)
    BY <1>5 DEF AnswerDiagnostics
  <2> QED
    BY <1>1, <2>1, <2>2 DEF Handles
<1>6. CASE Refuse(sent)
  <2>1. PICK request \in {"OTA_BEGIN", "OTA_DATA", "OTA_FINISH", "REVERT", "MARK_VALID", "MARK_BY_HAND"} :
           Answer(request, sent, Plain("ERROR"))
    BY <1>6 DEF Refuse
  <2> QED
    BY <1>3, <2>1
<1>7. CASE AnswerBegin(sent)
  BY <1>3, <1>7 DEF AnswerBegin
<1>8. CASE AnswerData(sent)
  BY <1>3, <1>8 DEF AnswerData
<1>9. CASE AnswerFinish(sent)
  BY <1>3, <1>9 DEF AnswerFinish
<1>10. CASE AnswerRevert(sent)
  BY <1>3, <1>10 DEF AnswerRevert
<1>11. CASE AnswerAbort(sent)
  BY <1>3, <1>11 DEF AnswerAbort
<1>12. CASE AnswerRestart(sent)
  BY <1>3, <1>12 DEF AnswerRestart
<1>13. CASE AnswerMarkValid(sent)
  <2>1. PICK request \in {"MARK_VALID", "MARK_BY_HAND"} : Answer(request, sent, Plain("OK"))
    BY <1>13 DEF AnswerMarkValid
  <2> QED
    BY <1>3, <2>1
<1> QED
  BY <1>2, <1>4, <1>5, <1>6, <1>7, <1>8, <1>9, <1>10, <1>11, <1>12, <1>13

\* What a reply that goes out, or gets lost, leaves on the link.
LEMMA HandledIs ==
  ASSUME ConsoleInv, NEW reply \in Replies, Handles(reply)
  PROVE  /\ Len(requests) \in Nat \ {0} /\ Len(requests') = Len(requests) - 1
         /\ Len(replies) \in Nat /\ Len(replies') \in {Len(replies), Len(replies) + 1}
         /\ 1 \in 1..Len(requests) /\ Head(requests) = requests[1]
         /\ \A i \in 1..Len(requests') : requests'[i] = requests[i + 1] /\ i + 1 \in 1..Len(requests)
         /\ \A i \in 1..Len(replies') :
              \/ i \in 1..Len(replies) /\ replies'[i] = replies[i]
              \/ i = Len(replies) + 1 /\ i = Len(replies') /\ replies'[i] = reply
         /\ Len(requests) = 1 => requests' = <<>>
<1>1. requests \in Seq(Requests) /\ replies \in Seq(Replies)
  BY DEF ConsoleInv, WireInv, DeviceTypes
<1>2. /\ requests' \in Seq(Requests) /\ Len(requests) \in Nat \ {0} /\ Len(requests') = Len(requests) - 1
      /\ Head(requests) = requests[1]
      /\ \A i \in 1..Len(requests') : requests'[i] = requests[i + 1]
  BY <1>1, Tailed DEF Handles
<1>3. \A i \in 1..Len(requests') : i + 1 \in 1..Len(requests)
  BY <1>2
<1>4. CASE replies' = replies
  BY <1>1, <1>2, <1>3, <1>4
<1>5. CASE replies' = Append(replies, reply)
  <2>1. /\ Len(replies') = Len(replies) + 1 /\ Len(replies) \in Nat
        /\ \A i \in 1..Len(replies) : replies'[i] = replies[i]
        /\ replies'[Len(replies) + 1] = reply
    BY <1>1, <1>5, Appended
  <2>2. \A i \in 1..Len(replies') : i \in 1..Len(replies) \/ (i = Len(replies) + 1 /\ i = Len(replies'))
    BY <2>1
  <2>3. \A i \in 1..Len(replies') :
          \/ i \in 1..Len(replies) /\ replies'[i] = replies[i]
          \/ i = Len(replies) + 1 /\ i = Len(replies') /\ replies'[i] = reply
    BY <2>1, <2>2
  <2>4. 1 \in 1..Len(requests) /\ (Len(requests) = 1 => requests' = <<>>)
    BY <1>2
  <2> QED
    BY <1>2, <1>3, <2>1, <2>3, <2>4
<1> QED
  BY <1>4, <1>5 DEF Handles

\* The device takes the requests in order, so that the link stays as it is ordered.
LEMMA HandledMatch ==
  ASSUME ConsoleInv, MatchInv, NEW reply \in Replies, Handles(reply),
         UNCHANGED <<waiting, txn, pc, phase, job>>
  PROVE  MatchInv'
<1>1. /\ Len(requests) \in Nat \ {0} /\ Len(requests') = Len(requests) - 1
      /\ Len(replies) \in Nat /\ Len(replies') \in {Len(replies), Len(replies) + 1}
      /\ 1 \in 1..Len(requests) /\ Head(requests) = requests[1]
      /\ Len(requests) = 1 => requests' = <<>>
  BY HandledIs
<1>2. \A i \in 1..Len(requests') : requests'[i] = requests[i + 1] /\ i + 1 \in 1..Len(requests) /\ i + 1 # 1
  <2>1. \A i \in 1..Len(requests') : requests'[i] = requests[i + 1] /\ i + 1 \in 1..Len(requests)
    BY HandledIs
  <2>2. \A i \in 1..Len(requests') : i + 1 # 1
    OBVIOUS
  <2> QED
    BY <2>1, <2>2
<1> DEFINE Old(i) == i \in 1..Len(replies) /\ replies'[i] = replies[i] /\ (IsInfo(i)' <=> IsInfo(i))
           New(i) == i = Len(replies) + 1 /\ i = Len(replies') /\ replies'[i] = reply
                       /\ (IsInfo(i)' <=> requests[1] = "GET_FW_INFO")
<1>3. \A i \in 1..Len(replies') : Old(i) \/ New(i)
  <2>1. \A i \in 1..Len(replies') :
          \/ i \in 1..Len(replies) /\ replies'[i] = replies[i]
          \/ i = Len(replies) + 1 /\ i = Len(replies') /\ replies'[i] = reply
    BY HandledIs
  <2>2. reply.type = "FW_INFO" <=> requests[1] = "GET_FW_INFO"
    BY <1>1 DEF Handles
  <2> QED
    BY <2>1, <2>2 DEF IsInfo
<1>4. Once' /\ HandFirst'
  BY DEF MatchInv, Once, HandFirst, HandAhead, Handles
<1>5. OneLate'
  BY <1>1 DEF MatchInv, OneLate
<1>6. Planning'
  <2> SUFFICES ASSUME pc.main = "plan", txn.by = "main" PROVE Planning'
    BY DEF Planning
  <2>1. \A i \in 1..Len(requests) : i > 1 \/ replies # <<>> => requests[i] = "GET_FW_INFO"
    BY DEF MatchInv, Planning
  <2>2. ASSUME NEW i \in 1..Len(replies'), i > 1 PROVE IsInfo(i)'
    <3>1. CASE Old(i)
      BY <2>2, <3>1 DEF MatchInv, Planning
    <3>2. CASE New(i)
      <4>1. replies # <<>>
        BY <1>1, <2>2, <3>2
      <4> QED
        BY <1>1, <2>1, <3>2, <4>1
    <3> QED
      BY <1>3, <3>1, <3>2
  <2>3. \A i \in 1..Len(requests') : requests'[i] = "GET_FW_INFO"
    BY <1>1, <1>2, <2>1
  <2> QED
    BY <2>2, <2>3 DEF Planning
<1>7. Planned1'
  BY <1>1, <1>2, <1>3 DEF MatchInv, Planned1, OnlyInfos
<1>8. OwnLast'
  <2> SUFFICES ASSUME pc.main \in {"begin", "data", "finish"} PROVE OwnLast'
    BY DEF OwnLast
  <2>1. /\ \A i \in 1..Len(requests) : requests[i] # "GET_FW_INFO" =>
             requests[i] = Asks[pc.main] /\ i = Len(requests) /\ txn.by = "main"
        /\ \A i \in 1..Len(replies) : IsInfo(i)
    BY <1>1 DEF MatchInv, OwnLast
  <2>2. Asks[pc.main] \in {"OTA_BEGIN", "OTA_DATA", "OTA_FINISH"}
    BY DEF Asks
  <2>3. ASSUME NEW i \in 1..Len(requests'), requests'[i] # "GET_FW_INFO"
        PROVE  requests'[i] = Asks[pc.main] /\ i = Len(requests') /\ txn.by = "main"
    <3>1. requests'[i] = Asks[pc.main] /\ i + 1 = Len(requests) /\ txn.by = "main"
      BY <1>2, <2>1, <2>3
    <3>2. i = Len(requests')
      BY <1>1, <3>1
    <3> QED
      BY <3>1, <3>2
  <2>4. ASSUME NEW i \in 1..Len(replies'), ~IsInfo(i)'
        PROVE  /\ replies'[i].type \in {"OK", "ERROR"} /\ i = Len(replies') /\ requests' = <<>>
               /\ txn.by = "main"
    <3>1. New(i) /\ requests[1] # "GET_FW_INFO"
      BY <1>3, <2>1, <2>4
    <3>2. requests[1] = Asks[pc.main] /\ 1 = Len(requests) /\ txn.by = "main"
      BY <1>1, <2>1, <3>1
    <3>3. requests' = <<>>
      BY <1>1, <3>2
    <3>4. reply.type \in {"OK", "ERROR"}
      BY <1>1, <2>2, <3>2 DEF Handles
    <3> QED
      BY <3>1, <3>2, <3>3, <3>4
  <2>5. pc.main # "begin" => NoInfos'
    BY <1>1, <1>2, <1>3 DEF MatchInv, OwnLast, NoInfos
  <2> QED
    BY <2>3, <2>4, <2>5 DEF OwnLast
<1>9. FinishFirst'
  <2> SUFFICES ASSUME pc.main = "probe", job.kind = "flash" PROVE FinishFirst'
    BY DEF FinishFirst
  <2>1. \A i \in 1..Len(requests') : requests'[i] = "GET_FW_INFO"
    BY <1>2 DEF MatchInv, FinishFirst
  <2>2. txn.by # "main" => NoInfos'
    BY <1>1, <1>2, <1>3 DEF MatchInv, FinishFirst, NoInfos
  <2> QED
    BY <2>1, <2>2 DEF FinishFirst
<1>10. Kinds'
  BY <1>2 DEF MatchInv, Kinds
<1> QED
  BY <1>4, <1>5, <1>6, <1>7, <1>8, <1>9, <1>10 DEF MatchInv

\* What the device has not answered is lost with the link.
LEMMA DeviceMatch ==
  ASSUME ConsoleInv, MatchInv, Device \/ Crashes \/ LinkDrops
  PROVE  MatchInv'
<1>1. CASE Serves
  BY <1>1, ServesHandles, HandledMatch
<1>2. CASE ~Serves
  <2>1. /\ UNCHANGED <<replies, waiting, txn, pc, phase, job>> /\ (link' = "none" <=> link = "none")
        /\ requests' = <<>> \/ requests' = requests
    BY <1>2 DEF Device, Restarts, RollsBack, Crashes, Stop, Boots, LinkDrops, consoleVars, linkVars, updVars
  <2>2. requests \in Seq(Requests) /\ replies \in Seq(Replies)
    BY DEF ConsoleInv, WireInv, DeviceTypes
  <2>3. Once' /\ HandFirst' /\ OneLate'
    BY <2>1, <2>2 DEF MatchInv, Once, HandFirst, HandAhead, OneLate
  <2>4. Planning' /\ Planned1' /\ Kinds'
    BY <2>1, <2>2 DEF MatchInv, Planning, Planned1, OnlyInfos, Kinds, IsInfo
  <2>5. OwnLast'
    BY <2>1, <2>2 DEF MatchInv, OwnLast, NoInfos, IsInfo
  <2>6. FinishFirst'
    BY <2>1, <2>2 DEF MatchInv, FinishFirst, NoInfos, IsInfo
  <2> QED
    BY <2>3, <2>4, <2>5, <2>6 DEF MatchInv
<1> QED
  BY <1>1, <1>2

-----------------------------------------------------------------------------
\* Who may ask beside main while an update is under way, and what.
LEMMA OthersAsk ==
  ASSUME ConsoleInv, MatchInv, link # "none", NEW f \in Flows, f # "main", pc[f] \in Asking
  PROVE  /\ pc.main \in {"ask", "begin", "revert"} => Asks[pc[f]] = "GET_FW_INFO"
         /\ pc.main \notin {"data", "finish", "probe", "release"}
         /\ Asks[pc[f]] \notin {"OTA_BEGIN", "OTA_DATA", "OTA_FINISH", "REVERT"}
<1>1. pc[f] \in StepsOf[f] \cap Asking
  BY DEF ConsoleInv, PageInv, OwnSteps
<1>2. /\ f = "conn" => pc.conn = "info"
      /\ f = "hand" => pc.hand \in {"hand", "hand_info"}
      /\ f = "report" => pc.report = "retry"
      /\ f = "confirm" => pc.confirm # "idle"
  BY <1>1, AskingIs DEF StepsOf
<1>3. pc.main \in Uploading \cup {"ask"} => pc.report = "idle" /\ pc.confirm = "idle" /\ pc.hand # "hand"
  BY DEF ConsoleInv, PageInv, MainPhase, ReportPhase, ConfirmAlone, MatchInv, HandFirst, Uploading
<1>4. pc.main \in {"data", "finish", "probe", "release"} => pc.conn = "idle" /\ pc.hand = "idle"
  BY DEF ConsoleInv, PageInv, ConnFirst, MatchInv, HandFirst
<1>5. f \in {"conn", "report", "confirm", "hand"}
  BY DEF Flows
<1>6. Asks["info"] = "GET_FW_INFO" /\ Asks["hand_info"] = "GET_FW_INFO"
  BY DEF Asks
<1>7. Asks[pc[f]] \notin {"OTA_BEGIN", "OTA_DATA", "OTA_FINISH", "REVERT"}
  BY <1>1, <1>5, AskingIs DEF StepsOf, Asks
<1> QED
  BY <1>2, <1>3, <1>4, <1>5, <1>6, <1>7 DEF Uploading

\* What sending adds to the requests.
LEMMA SentIs ==
  ASSUME ConsoleInv, NEW request \in Requests, OnTheLink(request)
  PROVE  /\ requests \in Seq(Requests) /\ Len(requests) \in Nat
         /\ \/ link # "open" /\ requests = <<>> /\ requests' = <<>>
            \/ link = "open" /\ Len(requests') = Len(requests) + 1
         /\ \A i \in 1..Len(requests') :
              \/ i \in 1..Len(requests) /\ requests'[i] = requests[i]
              \/ i = Len(requests) + 1 /\ i = Len(requests') /\ requests'[i] = request
         /\ \A i \in 1..Len(requests) : i \in 1..Len(requests') /\ requests'[i] = requests[i]
<1>1. requests \in Seq(Requests) /\ (link # "open" => requests = <<>>)
  BY DEF ConsoleInv, WireInv, DeviceTypes
<1>2. CASE link = "open"
  BY <1>1, <1>2, Appended DEF OnTheLink
<1>3. CASE link # "open"
  BY <1>1, <1>3 DEF OnTheLink
<1> QED
  BY <1>2, <1>3

\* f sends its request, for the first time or again.  One message at most is on the link,
\* or the first of two has just been read.
LEMMA SentMatch ==
  ASSUME ConsoleInv, MatchInv, NEW f \in Flows, pc[f] \in Asking, OnTheLink(Asks[pc[f]]),
         link # "none", txn'.by = f, txn' # NoTxn, txn = NoTxn \/ txn.by = f,
         UNCHANGED <<pc, phase, job, link>>, Once', HandFirst',
         \/ replies' = replies /\ Len(requests) + Len(replies) <= 1
         \/ txn # NoTxn /\ replies # <<>> /\ replies' = Tail(replies),
         f = "main" /\ txn # NoTxn => pc.main \in {"plan", "probe", "reread"}
  PROVE  MatchInv'
<1>1. /\ Asks[pc[f]] \in Requests /\ replies \in Seq(Replies) /\ Len(replies) \in Nat
      /\ \A i \in 1..Len(replies') :
           \E k \in 1..Len(replies) : replies'[i] = replies[k] /\ k >= i /\ (IsInfo(i)' <=> IsInfo(k))
      /\ replies' # replies => \A i \in 1..Len(replies') :
           i + 1 \in 1..Len(replies) /\ replies'[i] = replies[i + 1] /\ (IsInfo(i)' <=> IsInfo(i + 1))
  <2>1. Asks[pc[f]] \in Requests /\ replies \in Seq(Replies) /\ Len(replies) \in Nat
    BY AskingIs DEF ConsoleInv, WireInv, DeviceTypes
  <2>2. CASE replies' = replies
    BY <2>1, <2>2 DEF IsInfo
  <2>3. CASE replies # <<>> /\ replies' = Tail(replies)
    <3>1. \A i \in 1..Len(replies') : i + 1 \in 1..Len(replies) /\ replies'[i] = replies[i + 1]
      BY <2>1, <2>3, Tailed
    <3>2. \A i \in 1..Len(replies') : IsInfo(i)' <=> IsInfo(i + 1)
      BY <3>1 DEF IsInfo
    <3> QED
      BY <2>1, <3>1, <3>2
  <2> QED
    BY <2>1, <2>2, <2>3
<1>2. /\ requests \in Seq(Requests) /\ Len(requests) \in Nat
      /\ \/ link # "open" /\ requests = <<>> /\ requests' = <<>>
         \/ link = "open" /\ Len(requests') = Len(requests) + 1
      /\ \A i \in 1..Len(requests') :
           \/ i \in 1..Len(requests) /\ requests'[i] = requests[i]
           \/ i = Len(requests) + 1 /\ i = Len(requests') /\ requests'[i] = Asks[pc[f]]
      /\ \A i \in 1..Len(requests) : i \in 1..Len(requests') /\ requests'[i] = requests[i]
  BY <1>1, SentIs
<1>3. f = "main" \/ txn.by # "main"
  BY DEF NoTxn
<1>4. OneLate'
  <2>1. CASE replies' = replies /\ Len(requests) + Len(replies) <= 1
    BY <1>1, <1>2, <2>1 DEF OneLate
  <2>2. CASE txn # NoTxn /\ replies # <<>> /\ replies' = Tail(replies)
    <3>1. Len(replies') = Len(replies) - 1 /\ Len(requests) + Len(replies) <= 2
      BY <1>1, <2>2, Tailed DEF MatchInv, OneLate
    <3> QED
      BY <1>1, <1>2, <3>1 DEF OneLate
  <2> QED
    BY <2>1, <2>2
<1>5. Planning'
  <2> SUFFICES ASSUME pc.main = "plan", f = "main" PROVE Planning'
    BY DEF Planning
  <2>1. Asks[pc[f]] = "GET_FW_INFO"
    BY DEF Asks
  <2>2. CASE replies' = replies /\ Len(requests) + Len(replies) <= 1
    <3>1. ASSUME NEW i \in 1..Len(requests'), i > 1 \/ replies # <<>> PROVE requests'[i] = "GET_FW_INFO"
      BY <1>1, <1>2, <2>1, <2>2, <3>1
    <3>2. \A i \in 1..Len(replies') : ~(i > 1)
      BY <1>1, <1>2, <2>2
    <3> QED
      BY <2>2, <3>1, <3>2 DEF Planning
  <2>3. CASE txn # NoTxn /\ replies # <<>> /\ replies' = Tail(replies)
    <3>1. txn.by = "main"
      BY <2>3
    <3>2. replies' # replies
      BY <1>1, <2>3, Tailed
    <3>3. \A i \in 1..Len(replies') : IsInfo(i)'
      BY <1>1, <3>1, <3>2 DEF MatchInv, Planning
    <3>4. \A i \in 1..Len(requests') : requests'[i] = "GET_FW_INFO"
      BY <1>2, <2>1, <2>3, <3>1 DEF MatchInv, Planning
    <3> QED
      BY <3>3, <3>4 DEF Planning
  <2> QED
    BY <2>2, <2>3
<1>6. Planned1'
  <2> SUFFICES ASSUME pc.main = "ask" \/ (pc.main = "begin" /\ f # "main") PROVE OnlyInfos'
    BY DEF Planned1
  <2>1. f # "main"
    BY AskingIs
  <2>2. Asks[pc[f]] = "GET_FW_INFO"
    BY <2>1, OthersAsk
  <2>3. OnlyInfos
    BY <1>3, <2>1 DEF MatchInv, Planned1
  <2> QED
    BY <1>1, <1>2, <2>2, <2>3 DEF OnlyInfos
<1>7. OwnLast'
  <2> SUFFICES ASSUME pc.main \in {"begin", "data", "finish"} PROVE OwnLast'
    BY DEF OwnLast
  <2>1. txn.by # "main"
    BY DEF NoTxn
  <2>2. \A i \in 1..Len(requests) : requests[i] = "GET_FW_INFO"
    BY <2>1 DEF MatchInv, OwnLast
  <2>3. \A i \in 1..Len(replies') : IsInfo(i)'
    BY <1>1, <2>1 DEF MatchInv, OwnLast
  <2>4. f # "main" => pc.main = "begin" /\ Asks[pc[f]] = "GET_FW_INFO"
    BY OthersAsk
  <2>5. pc.main # "begin" => NoInfos'
    <3> SUFFICES ASSUME pc.main # "begin" PROVE NoInfos'
      OBVIOUS
    <3>1. NoInfos /\ f = "main"
      BY <2>4 DEF MatchInv, OwnLast
    <3>2. Asks[pc[f]] # "GET_FW_INFO"
      BY <3>1 DEF Asks
    <3> QED
      BY <1>1, <1>2, <3>1, <3>2 DEF NoInfos
  <2>6. \A i \in 1..Len(requests') : requests'[i] # "GET_FW_INFO" =>
           requests'[i] = Asks[pc.main] /\ i = Len(requests') /\ f = "main"
    BY <1>2, <2>2, <2>4
  <2> QED
    BY <2>3, <2>5, <2>6 DEF OwnLast
<1>8. FinishFirst'
  <2> SUFFICES ASSUME pc.main = "probe", job.kind = "flash" PROVE FinishFirst'
    BY DEF FinishFirst
  <2>1. f = "main" /\ Asks[pc[f]] = "GET_FW_INFO"
    BY OthersAsk DEF Asks
  <2>2. \A i \in 1..Len(requests') : requests'[i] \in {"GET_FW_INFO", "OTA_FINISH"}
    BY <1>2, <2>1 DEF MatchInv, FinishFirst
  <2>3. ASSUME NEW i \in 1..Len(requests'), requests'[i] = "OTA_FINISH"
        PROVE  i = 1 /\ Len(requests') > 1 /\ \A k \in 1..Len(replies') : ~IsInfo(k)'
    <3>1. i \in 1..Len(requests) /\ requests[i] = "OTA_FINISH"
      BY <1>2, <2>1, <2>3
    <3>2. i = 1 /\ \A k \in 1..Len(replies) : ~IsInfo(k)
      BY <3>1 DEF MatchInv, FinishFirst
    <3> QED
      BY <1>1, <1>2, <3>1, <3>2
  <2> QED
    BY <2>1, <2>2, <2>3 DEF FinishFirst
<1>9. Kinds'
  <2>1. Asks[pc[f]] = "OTA_FINISH" => pc.main = "finish"
    <3>1. f = "main" => (Asks[pc[f]] = "OTA_FINISH" => pc.main = "finish")
      BY AskingIs DEF Asks
    <3> QED
      BY <3>1, OthersAsk
  <2> QED
    BY <1>2, <2>1 DEF MatchInv, Kinds
<1> QED
  BY <1>4, <1>5, <1>6, <1>7, <1>8, <1>9 DEF MatchInv

\* The next transaction goes out behind what is late on the link.
LEMMA SendsMatch ==
  ASSUME ConsoleInv, MatchInv, NEW f \in Flows, Sends(f)
  PROVE  MatchInv'
<1>1. /\ txn = NoTxn /\ txn.by = "none" /\ waiting # <<>> /\ waiting \in Seq(Flows)
      /\ waiting' = Tail(waiting) /\ link # "none" /\ OnTheLink(Asks[pc[f]])
      /\ txn' = [by |-> f, left |-> Retries(Asks[pc[f]])]
      /\ UNCHANGED <<pc, phase, job, link, replies>> /\ pc[f] \in Asking
      /\ \A i \in 1..Len(waiting') : waiting'[i] = waiting[i + 1] /\ i + 1 \in 1..Len(waiting)
      /\ 1 \in 1..Len(waiting) /\ waiting[1] = f
  <2>1. /\ txn = NoTxn /\ txn.by = "none" /\ waiting # <<>> /\ waiting \in Seq(Flows)
        /\ waiting' = Tail(waiting) /\ link # "none" /\ OnTheLink(Asks[pc[f]])
        /\ txn' = [by |-> f, left |-> Retries(Asks[pc[f]])]
        /\ UNCHANGED <<pc, phase, job, link, replies>> /\ Head(waiting) = f
    BY DEF Sends, NoTxn, Here, updVars, ConsoleInv, PageInv, PageTypes
  <2>2. /\ \A i \in 1..Len(waiting') : waiting'[i] = waiting[i + 1] /\ i + 1 \in 1..Len(waiting)
        /\ 1 \in 1..Len(waiting) /\ waiting[1] = f
    BY <2>1, Tailed
  <2>3. pc[f] \in Asking
    BY <2>2 DEF ConsoleInv, PageInv, Queued
  <2> QED
    BY <2>1, <2>2, <2>3
<1>2. txn'.by = f /\ txn' # NoTxn /\ f # "none"
  BY <1>1 DEF NoTxn, Flows
<1>3. Once'
  <2> SUFFICES ASSUME f = "main", Retries(Asks[pc.main]) > 0 PROVE pc.main \in {"plan", "probe", "reread"}
    BY <1>1 DEF Once
  <2>1. pc.main \in StepsOf["main"] \cap Asking
    BY <1>1 DEF ConsoleInv, PageInv, OwnSteps
  <2>2. Expected(Asks[pc.main]) # "OK"
    BY DEF Retries
  <2> QED
    BY <2>1, <2>2, AskingIs DEF StepsOf, Asks, Expected
<1>4. HandFirst'
  <2>1. \A i \in 1..Len(waiting) : i = 1 \/ (i - 1 \in 1..Len(waiting') /\ waiting'[i - 1] = waiting[i])
    BY <1>1, Tailed
  <2>2. pc.hand # "idle" => f = "hand" \/ \E i \in 1..Len(waiting') : waiting'[i] = "hand"
    <3> SUFFICES ASSUME pc.hand # "idle", f # "hand"
                 PROVE  \E i \in 1..Len(waiting') : waiting'[i] = "hand"
      OBVIOUS
    <3>1. PICK i \in 1..Len(waiting) : waiting[i] = "hand"
      BY <1>1 DEF MatchInv, HandFirst
    <3>2. i # 1
      BY <1>1, <3>1
    <3> QED
      BY <2>1, <3>1, <3>2
  <2>3. HandAhead => HandAhead'
    <3> SUFFICES ASSUME HandAhead PROVE HandAhead'
      OBVIOUS
    <3>1. f = "main" => pc.hand = "idle"
      <4> SUFFICES ASSUME f = "main", pc.hand # "idle" PROVE FALSE
        OBVIOUS
      <4>1. PICK i \in 1..Len(waiting) : waiting[i] = "hand"
        BY <1>1 DEF MatchInv, HandFirst
      <4>2. i < 1
        BY <1>1, <4>1 DEF HandAhead
      <4> QED
        BY <4>2
    <3>2. \A i, j \in 1..Len(waiting') : waiting'[i] = "main" /\ waiting'[j] = "hand" => j < i
      <4> SUFFICES ASSUME NEW i \in 1..Len(waiting'), NEW j \in 1..Len(waiting'),
                          waiting'[i] = "main", waiting'[j] = "hand"
                   PROVE  j < i
        OBVIOUS
      <4>1. /\ waiting[i + 1] = "main" /\ waiting[j + 1] = "hand"
            /\ i + 1 \in 1..Len(waiting) /\ j + 1 \in 1..Len(waiting)
        BY <1>1
      <4>2. j + 1 < i + 1
        BY <4>1 DEF HandAhead
      <4> QED
        BY <4>2
    <3> QED
      BY <1>1, <1>2, <3>1, <3>2 DEF HandAhead
  <2> QED
    BY <1>1, <1>2, <2>2, <2>3 DEF MatchInv, HandFirst
<1>5. Len(requests) + Len(replies) <= 1
  BY <1>1 DEF MatchInv, OneLate
<1> QED
  BY <1>1, <1>2, <1>3, <1>4, <1>5, SentMatch

\* Only a request for a report is sent again.
LEMMA RetriedMatch ==
  ASSUME ConsoleInv, MatchInv, Retried, link' = link,
         \/ replies' = replies /\ Len(requests) + Len(replies) <= 1
         \/ replies # <<>> /\ replies' = Tail(replies)
  PROVE  MatchInv'
<1>1. /\ txn # NoTxn /\ txn.left > 0 /\ link # "none" /\ OnTheLink(Asks[pc[txn.by]])
      /\ txn' = [txn EXCEPT !.left = 0]
      /\ txn \in [by : Flows \cup {"none"}, left : 0..1]
      /\ UNCHANGED <<waiting, pc, phase, job>>
  BY DEF Retried, Here, updVars, ConsoleInv, PageInv, PageTypes
<1>2. txn'.by = txn.by /\ txn'.left = 0
  BY <1>1
<1>3. txn.by \in Flows /\ pc[txn.by] \in Asking
  BY <1>1 DEF ConsoleInv, PageInv, Queued, NoTxn
<1>4. Once' /\ HandFirst'
  BY <1>1, <1>2 DEF MatchInv, Once, HandFirst, HandAhead
<1>5. txn' # NoTxn
  BY <1>2, <1>3 DEF Flows, NoTxn
<1> QED
  BY <1>1, <1>2, <1>3, <1>4, <1>5, SentMatch DEF MatchInv, Once

-----------------------------------------------------------------------------
\* Replies are read, and none is asked for: what is on the link stays as it is ordered.
LEMMA LessMatch ==
  ASSUME ConsoleInv, MatchInv, requests' = requests, job'.kind = job.kind,
         replies' = replies \/ (replies # <<>> /\ replies' = Tail(replies)),
         \/ txn' = txn
         \/ txn' = NoTxn /\ Len(requests) + Len(replies') <= 1,
         \/ pc'.main = pc.main /\ (txn' = txn \/ txn.by # "main")
         \/ /\ pc'.main \notin Uploading \cup {"plan", "ask"}
            /\ \A i \in 1..Len(requests) : requests[i] # "OTA_FINISH"
  PROVE  OneLate' /\ Planning' /\ Planned1' /\ OwnLast' /\ FinishFirst' /\ Kinds'
<1>1. /\ requests \in Seq(Requests) /\ replies \in Seq(Replies) /\ Len(replies) \in Nat
      /\ \A i \in 1..Len(replies') :
           \E k \in 1..Len(replies) : /\ replies'[i] = replies[k] /\ (IsInfo(i)' <=> IsInfo(k))
                                      /\ i > 1 => k > 1
                                      /\ k = Len(replies) => i = Len(replies')
      /\ Len(replies') \in Nat /\ Len(replies') <= Len(replies)
      /\ replies' # <<>> => replies # <<>>
  <2>1. requests \in Seq(Requests) /\ replies \in Seq(Replies) /\ Len(replies) \in Nat
    BY DEF ConsoleInv, WireInv, DeviceTypes
  <2>2. CASE replies' = replies
    BY <2>1, <2>2 DEF IsInfo
  <2>3. CASE replies # <<>> /\ replies' = Tail(replies)
    <3>1. /\ \A i \in 1..Len(replies') : i + 1 \in 1..Len(replies) /\ replies'[i] = replies[i + 1]
          /\ Len(replies') = Len(replies) - 1
      BY <2>1, <2>3, Tailed
    <3>2. \A i \in 1..Len(replies') : IsInfo(i)' <=> IsInfo(i + 1)
      BY <3>1 DEF IsInfo
    <3>3. Len(replies') \in Nat
      BY <2>1, <2>3, Tailed
    <3>4. \A i \in 1..Len(replies') :
            /\ i + 1 \in 1..Len(replies) /\ replies'[i] = replies[i + 1] /\ (IsInfo(i)' <=> IsInfo(i + 1))
            /\ i > 1 => i + 1 > 1
            /\ i + 1 = Len(replies) => i = Len(replies')
      <4> DEFINE n == Len(replies)
                 m == Len(replies')
      <4>1. n \in Nat /\ m \in Nat /\ m = n - 1
        BY <2>1, <3>1, <3>3
      <4> HIDE DEF n, m
      <4>2. \A i \in 1..m : (i > 1 => i + 1 > 1) /\ (i + 1 = n => i = m)
        BY <4>1
      <4> QED
        BY <3>1, <3>2, <4>2 DEF n, m
    <3>5. Len(replies') = Len(replies) - 1
      BY <3>1
    <3>7. Len(replies') <= Len(replies)
      BY <2>1, <3>3, <3>5
    <3>6. ASSUME NEW i \in 1..Len(replies')
          PROVE  \E k \in 1..Len(replies) : /\ replies'[i] = replies[k] /\ (IsInfo(i)' <=> IsInfo(k))
                                            /\ i > 1 => k > 1
                                            /\ k = Len(replies) => i = Len(replies')
      <4>1. i + 1 \in 1..Len(replies)
        BY <3>4
      <4> WITNESS i + 1 \in 1..Len(replies)
      <4> QED
        BY <3>4
    <3> QED
      BY <2>1, <2>3, <3>3, <3>6, <3>7
  <2> QED
    BY <2>1, <2>2, <2>3
<1>2. OneLate'
  BY <1>1 DEF MatchInv, OneLate
<1>3. CASE pc'.main = pc.main /\ (txn' = txn \/ txn.by # "main")
  <2>1. (txn'.by = "main" => txn.by = "main") /\ (txn.by = "main" => txn'.by = "main")
    BY <1>3 DEF NoTxn
  <2>2. Planning'
    BY <1>1, <1>3, <2>1 DEF MatchInv, Planning
  <2>3. Planned1'
    BY <1>1, <1>3, <2>1 DEF MatchInv, Planned1, OnlyInfos
  <2>4. OwnLast'
    <3> SUFFICES ASSUME pc.main \in {"begin", "data", "finish"} PROVE OwnLast'
      BY <1>3 DEF OwnLast
    <3>1. \A i \in 1..Len(replies') : ~IsInfo(i)' =>
            /\ replies'[i].type \in {"OK", "ERROR"} /\ i = Len(replies') /\ requests = <<>>
            /\ txn.by = "main"
      BY <1>1 DEF MatchInv, OwnLast
    <3>2. pc.main # "begin" => NoInfos'
      BY <1>1 DEF MatchInv, OwnLast, NoInfos
    <3> QED
      BY <1>3, <2>1, <3>1, <3>2 DEF MatchInv, OwnLast
  <2>5. FinishFirst'
    <3> SUFFICES ASSUME pc.main = "probe", job.kind = "flash" PROVE FinishFirst'
      BY <1>3 DEF FinishFirst
    <3>1. txn'.by # "main" => NoInfos'
      BY <1>1, <2>1 DEF MatchInv, FinishFirst, NoInfos
    <3>2. ASSUME NEW i \in 1..Len(requests), requests[i] = "OTA_FINISH"
          PROVE  \A k \in 1..Len(replies') : ~IsInfo(k)'
      BY <1>1, <3>2 DEF MatchInv, FinishFirst
    <3> QED
      BY <2>1, <3>1, <3>2 DEF MatchInv, FinishFirst
  <2>6. Kinds'
    BY <1>3 DEF MatchInv, Kinds
  <2> QED
    BY <1>2, <2>2, <2>3, <2>4, <2>5, <2>6
<1>4. CASE /\ pc'.main \notin Uploading \cup {"plan", "ask"}
           /\ \A i \in 1..Len(requests) : requests[i] # "OTA_FINISH"
  BY <1>2, <1>4 DEF Planning, Planned1, OwnLast, FinishFirst, Kinds, Uploading
<1> QED
  BY <1>3, <1>4

\* The await of f ends, and how: with the reply at the head, a timeout, or the link.
Closed(f, how, data) ==
  /\ pc[f] \in Asking /\ Free(f) /\ txn' = NoTxn /\ link' = link /\ requests' = requests
  /\ \/ how = "lost" /\ link = "none" /\ replies' = replies
     \/ /\ how = "timeout" /\ link # "none" /\ txn.by = f /\ replies' = replies
        /\ Len(requests) + Len(replies) <= 1
     \/ /\ how = "failed" /\ link # "none" /\ txn.by = f
        /\ replies # <<>> /\ replies' = Tail(replies) /\ Head(replies).type = "ERROR"
     \/ /\ how = "ok" /\ link # "none" /\ txn.by = f
        /\ replies # <<>> /\ replies' = Tail(replies)
        /\ Head(replies).type = Expected(Asks[pc[f]]) /\ Head(replies).data = data

\* An await that ends had its flow at a request, and leaves less on the link.
LEMMA ClosedIs ==
  ASSUME ConsoleInv, MatchInv, NEW f, NEW how, NEW data, Closed(f, how, data)
  PROVE  /\ replies' = replies \/ (replies # <<>> /\ replies' = Tail(replies))
         /\ Len(requests) + Len(replies') <= 1
         /\ how \in {"lost", "timeout", "failed", "ok"}
         /\ how = "lost" <=> link = "none"
         /\ how = "lost" => requests = <<>> /\ replies = <<>>
         /\ how # "lost" => txn.by = f
         /\ how \in {"ok", "failed"} => /\ 1 \in 1..Len(replies) /\ replies[1] = Head(replies)
                                        /\ Len(replies') = Len(replies) - 1
                                        /\ \A i \in 1..Len(replies') :
                                             i + 1 \in 1..Len(replies) /\ replies'[i] = replies[i + 1]
<1>1. /\ requests \in Seq(Requests) /\ replies \in Seq(Replies) /\ Len(requests) \in Nat /\ Len(replies) \in Nat
      /\ link = "none" => requests = <<>> /\ replies = <<>>
      /\ Len(requests) + Len(replies) <= 2
  <2>1. requests \in Seq(Requests) /\ replies \in Seq(Replies) /\ Len(requests) \in Nat /\ Len(replies) \in Nat
    BY DEF ConsoleInv, WireInv, DeviceTypes
  <2>2. link = "none" => requests = <<>> /\ replies = <<>>
    BY DEF ConsoleInv, WireInv
  <2>3. Len(requests) + Len(replies) <= 2
    BY <2>1 DEF MatchInv, OneLate
  <2> QED
    BY <2>1, <2>2, <2>3
<1>2. CASE how \in {"ok", "failed"}
  <2>1. /\ replies # <<>> /\ replies' = Tail(replies) /\ link # "none" /\ txn.by = f
    BY <1>2 DEF Closed
  <2>2. /\ 1 \in 1..Len(replies) /\ replies[1] = Head(replies)
        /\ Len(replies') = Len(replies) - 1
        /\ \A i \in 1..Len(replies') : i + 1 \in 1..Len(replies) /\ replies'[i] = replies[i + 1]
    BY <1>1, <2>1, Tailed
  <2>3. Len(requests) + Len(replies') <= 1
    BY <1>1, <2>2
  <2>4. how # "lost" /\ how \in {"lost", "timeout", "failed", "ok"}
    BY <1>2
  <2> QED
    BY <2>1, <2>2, <2>3, <2>4, Zenon
<1>3. CASE how \notin {"ok", "failed"}
  BY <1>1, <1>3 DEF Closed
<1> QED
  BY <1>2, <1>3

\* A flow beside main ends its await, and goes on or stops.
LEMMA OtherEnds ==
  ASSUME ConsoleInv, NEW f \in {"conn", "report", "confirm", "hand"}, NEW how, NEW data,
         pc[f] \in Asking, Resumes(f, how, data)
  PROVE  /\ pc'.main = pc.main /\ job' = job
         /\ \/ /\ f # "hand" /\ pc'.hand = pc.hand
               /\ waiting' \in {waiting, Append(waiting, f), Append(waiting, "confirm")}
            \/ f = "hand" /\ pc'.hand = "idle" /\ waiting' = waiting
            \/ f = "hand" /\ pc.hand = "hand" /\ pc'.hand = "hand_info" /\ waiting' = Append(waiting, f)
<1>0. pc \in [Flows -> Steps]
  BY DEF ConsoleInv, PageInv, PageTypes
<1>1. CASE f = "conn"
  <2> DEFINE p == [pc EXCEPT !.conn = "idle"]
  <2>1. UpdateReconnected(how, data, p)
    BY <1>1 DEF Resumes, Informs
  <2>2. p.main = pc.main /\ p.hand = pc.hand /\ p \in [Flows -> Steps]
    BY <1>0 DEF Flows, Steps
  <2>3. /\ job' = job /\ waiting' \in {waiting, Append(waiting, "confirm")}
        /\ pc' = p \/ pc' = [p EXCEPT !.confirm = "firmware"] \/ pc' = [p EXCEPT !.report = "sleep"]
    BY <2>1 DEF UpdateReconnected, Reports
  <2>4. pc'.main = pc.main /\ pc'.hand = pc.hand
    BY <2>2, <2>3 DEF Flows
  <2> QED
    BY <1>1, <2>3, <2>4
<1>2. CASE f = "report"
  <2> DEFINE p == [pc EXCEPT !.report = "idle"]
  <2>1. ReadsAgain(how, data)
    BY <1>2 DEF Resumes
  <2>2. p.main = pc.main /\ p.hand = pc.hand /\ p \in [Flows -> Steps]
    BY <1>0 DEF Flows, Steps
  <2>3. /\ job' = job /\ waiting' \in {waiting, Append(waiting, "confirm")}
        /\ pc' = p \/ pc' = [p EXCEPT !.confirm = "firmware"] \/ pc' = [pc EXCEPT !.report = "sleep"]
    BY <2>1, AskingIs DEF ReadsAgain, Reports, Goes
  <2>4. pc'.main = pc.main /\ pc'.hand = pc.hand
    BY <1>0, <2>2, <2>3 DEF Flows
  <2> QED
    BY <1>2, <2>3, <2>4
<1>3. CASE f = "confirm"
  <2>1. Confirms(how, data)
    BY <1>3 DEF Resumes
  <2>2. PICK step : Goes("confirm", step) /\ job' = job
    BY <2>1 DEF Confirms, ChecksDevice, ChecksProtocol, ChecksSensor, MarksValid, CheckFails, Confirmed,
                NotConfirmed, NextCheck
  <2>3. pc' = [pc EXCEPT !.confirm = step] /\ waiting' \in {waiting, Append(waiting, "confirm")}
    BY <2>2 DEF Goes
  <2>4. pc'.main = pc.main /\ pc'.hand = pc.hand
    BY <1>0, <2>3 DEF Flows
  <2> QED
    BY <1>3, <2>2, <2>3, <2>4
<1>4. CASE f = "hand"
  <2>1. MarksByHand(how, data)
    BY <1>4 DEF Resumes
  <2>2. PICK step \in {"hand_info", "idle"} :
           Goes("hand", step) /\ job' = job /\ (step = "hand_info" => pc.hand = "hand")
    BY <2>1 DEF MarksByHand
  <2>3. /\ pc' = [pc EXCEPT !.hand = step]
        /\ waiting' = IF step = "hand_info" THEN Append(waiting, "hand") ELSE waiting
    BY <2>2, AskingIs DEF Goes
  <2>4. pc'.main = pc.main /\ pc'.hand = step
    BY <1>0, <2>3 DEF Flows
  <2> QED
    BY <1>4, <2>2, <2>3, <2>4
<1> QED
  BY <1>1, <1>2, <1>3, <1>4

\* Whoever joins the queue joins behind those that wait.
LEMMA Joined ==
  ASSUME ConsoleInv, NEW g \in Flows, waiting' \in {waiting, Append(waiting, g)}
  PROVE  /\ Len(waiting) \in Nat /\ Len(waiting') \in Nat
         /\ \A i \in 1..Len(waiting) : i \in 1..Len(waiting') /\ waiting'[i] = waiting[i]
         /\ \A i \in 1..Len(waiting') :
              \/ i \in 1..Len(waiting) /\ waiting'[i] = waiting[i]
              \/ i > Len(waiting) /\ waiting'[i] = g
         /\ waiting' = Append(waiting, g) => \E i \in 1..Len(waiting') : waiting'[i] = g
<1>1. waiting \in Seq(Flows) /\ Len(waiting) \in Nat
  BY DEF ConsoleInv, PageInv, PageTypes
<1>2. CASE waiting' = waiting
  <2>1. waiting # Append(waiting, g)
    BY <1>1, Appended
  <2> QED
    BY <1>1, <1>2, <2>1
<1>3. CASE waiting' = Append(waiting, g)
  BY <1>1, <1>3, Appended
<1> QED
  BY <1>2, <1>3

\* What a flow beside main does leaves main and what is on the link to it.
LEMMA OtherMatch ==
  ASSUME ConsoleInv, MatchInv, NEW f \in {"conn", "report", "confirm", "hand"}, NEW how, NEW data,
         Closed(f, how, data), Resumes(f, how, data)
  PROVE  MatchInv'
<1>1. /\ pc'.main = pc.main /\ job' = job
      /\ \/ /\ f # "hand" /\ pc'.hand = pc.hand
            /\ waiting' \in {waiting, Append(waiting, f), Append(waiting, "confirm")}
         \/ f = "hand" /\ pc'.hand = "idle" /\ waiting' = waiting
         \/ f = "hand" /\ pc.hand = "hand" /\ pc'.hand = "hand_info" /\ waiting' = Append(waiting, f)
  BY OtherEnds DEF Closed
<1>2. /\ replies' = replies \/ (replies # <<>> /\ replies' = Tail(replies))
      /\ Len(requests) + Len(replies') <= 1
      /\ requests' = requests /\ link' = link /\ txn' = NoTxn
      /\ link = "none" => txn = NoTxn
      /\ link # "none" => txn.by = f
  BY ClosedIs DEF Closed, ConsoleInv, PageInv, Linked
<1>3. txn.by # "main" /\ txn'.by = "none" /\ txn'.left = 0
  BY <1>2 DEF NoTxn
<1>4. OneLate' /\ Planning' /\ Planned1' /\ OwnLast' /\ FinishFirst' /\ Kinds'
  BY <1>1, <1>2, <1>3, LessMatch
<1>5. Once'
  BY <1>3 DEF Once
<1>6. HandFirst'
  <2> SUFFICES ASSUME link # "none" PROVE HandFirst'
    BY <1>2 DEF HandFirst
  <2>1. CASE f # "hand"
    <3>1. PICK g \in {f, "confirm"} : waiting' \in {waiting, Append(waiting, g)}
      BY <1>1, <2>1
    <3>2. g \in Flows /\ g \notin {"main", "hand"}
      BY <2>1 DEF Flows
    <3>3. /\ \A i \in 1..Len(waiting) : i \in 1..Len(waiting') /\ waiting'[i] = waiting[i]
          /\ \A i \in 1..Len(waiting') : waiting'[i] \in {"main", "hand"} =>
               i \in 1..Len(waiting) /\ waiting'[i] = waiting[i]
      BY <3>1, <3>2, Joined
    <3>4. HandAhead => HandAhead'
      BY <1>3, <3>3 DEF HandAhead
    <3>5. pc.hand # "idle" => \E i \in 1..Len(waiting') : waiting'[i] = "hand"
      BY <1>2, <2>1, <3>3 DEF MatchInv, HandFirst
    <3> QED
      BY <1>1, <2>1, <3>4, <3>5 DEF MatchInv, HandFirst
  <2>2. CASE f = "hand"
    <3>1. pc.hand # "idle"
      BY <2>2, AskingIs DEF Closed
    <3>2. CASE pc'.hand = "idle" /\ waiting' = waiting
      <4>1. HandAhead => HandAhead'
        BY <1>3, <3>2 DEF HandAhead
      <4> QED
        BY <1>1, <3>2, <4>1 DEF MatchInv, HandFirst
    <3>3. CASE pc.hand = "hand" /\ pc'.hand = "hand_info" /\ waiting' = Append(waiting, f)
      <4>1. pc.main \notin Uploading \cup {"ask"}
        BY <3>3 DEF MatchInv, HandFirst
      <4>2. \E i \in 1..Len(waiting') : waiting'[i] = "hand"
        BY <2>2, <3>3, Joined DEF Flows
      <4> QED
        BY <1>1, <3>3, <4>1, <4>2 DEF HandFirst, Uploading
    <3> QED
      BY <1>1, <2>2, <3>2, <3>3
  <2> QED
    BY <2>1, <2>2
<1> QED
  BY <1>4, <1>5, <1>6 DEF MatchInv

-----------------------------------------------------------------------------
\* The verdicts that exclude an update from what the device may start.
Exclusions == {"not_installed", "rolled_back"}

\* What an await's end makes the page say: nothing new, nothing that excludes the update,
\* that it was rolled back, which decideOutcome() says, or that it was not installed.
RolledBackBy(how, data) ==
  /\ phase' = "done" /\ said' = "rolled_back" /\ how = "ok" /\ Outcome(data) = "rolled_back"
  /\ phase \in {"rebooting", "switched_no_restart"}
SaysNoMore ==
  \/ UNCHANGED <<phase, said>>
  \/ phase' # "none" /\ said' \notin Exclusions
  \/ phase # "done" /\ phase' # "none" /\ said' = said
NotInstalledBy(how) ==
  /\ phase' = "done" /\ said' = "not_installed"
  /\ \/ pc.main \in {"begin", "data", "release", "revert"}
     \/ pc.main = "finish" /\ how = "failed"
     \/ pc.main = "probe" /\ job.kind = "revert"

\* Reports() says "rolled back" only on a FW_INFO that decideOutcome() takes for one.
LEMMA ReportsSays ==
  ASSUME NEW info \in Infos, NEW p, Reports(info, p), phase \in {"rebooting", "switched_no_restart"}
  PROVE  SaysNoMore \/ RolledBackBy("ok", info)
<1>1. /\ Outcome(info) = "confirming" => phase' = "confirming" /\ said' = said
      /\ Outcome(info) = "not_restarted" => phase' = "switched_no_restart" /\ said' = "not_restarted"
      /\ Outcome(info) \notin {"confirming", "not_restarted"} => phase' = "done" /\ said' = Outcome(info)
  BY DEF Reports, NotRestarted, Ends
<1>2. Outcome(info) \in {"confirming", "not_restarted", "same_build", "confirmed", "rolled_back", "unexpected"}
  BY OutcomeIs
<1> QED
  BY <1>1, <1>2 DEF SaysNoMore, RolledBackBy, Exclusions

\* onUpdateReconnected() says no more than Reports() does.
LEMMA ReconnectedSays ==
  ASSUME NEW how, NEW info, NEW p, UpdateReconnected(how, info, p), how = "ok" => info \in Infos
  PROVE  SaysNoMore \/ RolledBackBy(how, info)
<1>1. CASE phase # "rebooting" \/ pc.report # "idle"
  BY <1>1 DEF UpdateReconnected, SaysNoMore
<1>2. CASE phase = "rebooting" /\ pc.report = "idle" /\ how = "ok"
  BY <1>2, ReportsSays DEF UpdateReconnected
<1>3. CASE phase = "rebooting" /\ pc.report = "idle" /\ how # "ok"
  BY <1>3 DEF UpdateReconnected, SaysNoMore, Ends, Exclusions
<1> QED
  BY <1>1, <1>2, <1>3

\* The step that main goes on to.
PlanMade(data) ==
  /\ pc.main = "plan" /\ pc'.main = "ask" /\ Usable(data) /\ UNCHANGED <<phase, said>>
  /\ job'.kind = job.kind /\ job'.trial = data.pending /\ job'.slot = Other(data.running)
MainNext(how, data) ==
  /\ job' = job /\ UNCHANGED <<phase, said>>
  /\ \/ how = "ok" /\ pc.main = "begin" /\ pc'.main = "data"
     \/ how = "ok" /\ pc.main = "data" /\ pc'.main = "finish"
     \/ how = "timeout" /\ pc.main \in {"finish", "revert"} /\ pc'.main = "probe"
     \/ how = "ok" /\ pc.main = "probe" /\ pc'.main = "release" /\ job.kind = "flash"
          /\ data.boot = data.running
MainOver(how, data) ==
  /\ job' = job /\ pc'.main \in {"idle", "abort", "drop_wait"}
  /\ pc.main \in {"finish", "revert"} => how # "timeout"
  /\ SaysNoMore \/ (RolledBackBy(how, data) /\ pc.main = "reread") \/ NotInstalledBy(how)

\* Where main goes from each await, and what the page says then.
LEMMA MainEnds ==
  ASSUME ConsoleInv, NEW how \in {"ok", "failed", "timeout", "lost"}, NEW data, pc.main \in Asking,
         Resumes("main", how, data), how = "ok" /\ pc.main \in {"plan", "probe", "reread"} => data \in Infos
  PROVE  /\ pc'.hand = pc.hand
         /\ waiting' \in {waiting, Append(waiting, "main"), Append(waiting, "confirm")}
         /\ (how = "ok" /\ PlanMade(data)) \/ MainNext(how, data) \/ MainOver(how, data)
<1>0. pc \in [Flows -> Steps] /\ job \in Jobs
  BY DEF ConsoleInv, PageInv, PageTypes
<1>1. ASSUME NEW step, Goes("main", step)
      PROVE  pc'.main = step /\ pc'.hand = pc.hand /\ waiting' \in {waiting, Append(waiting, "main")}
  BY <1>0, <1>1 DEF Goes, Flows
<1>2. CASE Plans(how, data)
  <2>1. CASE how = "ok" /\ Usable(data)
    <3>1. Goes("main", "ask")
      BY <1>2, <2>1 DEF Plans
    <3>2. /\ job'.kind = job.kind /\ job'.trial = data.pending /\ job'.slot = Other(data.running)
          /\ pc.main = "plan" /\ UNCHANGED <<phase, said>>
      BY <1>0, <1>2, <2>1 DEF Plans, Jobs
    <3> QED
      BY <1>1, <2>1, <3>1, <3>2 DEF PlanMade
  <2>2. CASE ~(how = "ok" /\ Usable(data))
    BY <1>1, <1>2, <2>2 DEF Plans, MainOver, SaysNoMore
  <2> QED
    BY <2>1, <2>2
<1>3. CASE Writes(how)
  <2>1. CASE how = "ok"
    BY <1>1, <1>3, <2>1 DEF Writes, MainNext, updVars
  <2>2. CASE how # "ok"
    <3>1. Fails(pc.main = "data") /\ pc.main \in {"begin", "data"}
      BY <1>3, <2>2 DEF Writes
    <3> QED
      BY <1>1, <3>1 DEF Fails, Ends, MainOver, NotInstalledBy
  <2> QED
    BY <2>1, <2>2
<1>4. CASE Switches(how)
  <2>1. CASE how \in {"ok", "lost"}
    BY <1>1, <1>4, <2>1 DEF Switches, AfterReboot, MainOver, SaysNoMore, Exclusions
  <2>2. CASE how = "failed"
    <3>1. Fails(pc.main = "finish") /\ pc.main \in {"finish", "revert"}
      BY <1>4, <2>2 DEF Switches
    <3> QED
      BY <1>1, <2>2, <3>1 DEF Fails, Ends, MainOver, NotInstalledBy
  <2>3. CASE how = "timeout"
    BY <1>1, <1>4, <2>3 DEF Switches, MainNext, updVars
  <2> QED
    BY <2>1, <2>2, <2>3
<1>5. CASE Probes(how, data)
  <2>1. CASE how # "ok"
    BY <1>1, <1>5, <2>1 DEF Probes, Ends, MainOver, SaysNoMore, Exclusions
  <2>2. CASE how = "ok" /\ data.boot # data.running
    BY <1>1, <1>5, <2>2 DEF Probes, NotRestarted, MainOver, SaysNoMore, Exclusions
  <2>3. CASE how = "ok" /\ data.boot = data.running /\ job.kind = "revert"
    BY <1>1, <1>5, <2>3 DEF Probes, Ends, MainOver, NotInstalledBy
  <2>4. CASE how = "ok" /\ data.boot = data.running /\ job.kind # "revert"
    BY <1>0, <1>1, <1>5, <2>4 DEF Probes, MainNext, Jobs
  <2> QED
    BY <2>1, <2>2, <2>3, <2>4
<1>6. CASE Releases
  BY <1>1, <1>6 DEF Releases, Ends, MainOver, NotInstalledBy, SaysNoMore
<1>7. CASE Restarted(how)
  BY <1>1, <1>7 DEF Restarted, NotRestarted, AfterReboot, MainOver, SaysNoMore, Exclusions
<1>8. CASE Rereads(how, data)
  <2> DEFINE p == [pc EXCEPT !.main = "idle"]
  <2>1. UpdateReconnected(how, data, p) /\ pc.main = "reread"
    BY <1>8 DEF Rereads
  <2>2. p.main = "idle" /\ p.hand = pc.hand /\ p \in [Flows -> Steps]
    BY <1>0 DEF Flows, Steps
  <2>3. /\ job' = job /\ waiting' \in {waiting, Append(waiting, "confirm")}
        /\ pc' = p \/ pc' = [p EXCEPT !.confirm = "firmware"] \/ pc' = [p EXCEPT !.report = "sleep"]
    BY <2>1 DEF UpdateReconnected, Reports
  <2>4. pc'.main = "idle" /\ pc'.hand = pc.hand
    BY <2>2, <2>3 DEF Flows
  <2>5. SaysNoMore \/ RolledBackBy(how, data)
    BY <2>1, ReconnectedSays
  <2> QED
    BY <2>1, <2>3, <2>4, <2>5 DEF MainOver
<1> QED
  BY <1>2, <1>3, <1>4, <1>5, <1>6, <1>7, <1>8 DEF Resumes

\* The FW_INFO that an await ends with.
LEMMA ClosedInfo ==
  ASSUME ConsoleInv, NEW f, NEW data, Closed(f, "ok", data), Expected(Asks[pc[f]]) = "FW_INFO"
  PROVE  IsInfo(1) /\ 1 \in 1..Len(replies) /\ replies[1].data = data /\ data \in Infos
<1>1. replies # <<>> /\ Head(replies).type = "FW_INFO" /\ Head(replies).data = data
  BY DEF Closed
<1>2. replies \in Seq(Replies) /\ 1 \in 1..Len(replies) /\ replies[1] = Head(replies)
  BY <1>1, Tailed DEF ConsoleInv, WireInv, DeviceTypes
<1>3. IsInfo(1)
  BY <1>1, <1>2 DEF IsInfo
<1> QED
  BY <1>1, <1>2, <1>3, InfoTyped DEF ConsoleInv

\* Main's next request queues behind the button's.
LEMMA MainHand ==
  ASSUME ConsoleInv, MatchInv, pc'.hand = pc.hand, link' = link, link # "none",
         waiting' \in {waiting, Append(waiting, "main"), Append(waiting, "confirm")},
         Free("main"), txn'.by # "main", txn.by = "hand" => txn'.by = "hand",
         pc'.main \in Uploading \cup {"ask"} =>
           \/ txn.by = "main" /\ pc.main \in Uploading /\ pc'.main \in Uploading
           \/ txn.by = "main" /\ pc.main = "plan" /\ pc'.main = "ask"
           \/ pc.main = "ask" /\ pc'.main \in {"begin", "revert"}
  PROVE  HandFirst'
<1>1. PICK g \in {"main", "confirm"} : waiting' \in {waiting, Append(waiting, g)}
  OBVIOUS
<1>2. /\ Len(waiting) \in Nat
      /\ \A i \in 1..Len(waiting) : i \in 1..Len(waiting') /\ waiting'[i] = waiting[i]
      /\ \A i \in 1..Len(waiting') :
              \/ i \in 1..Len(waiting) /\ waiting'[i] = waiting[i]
              \/ i > Len(waiting) /\ waiting'[i] = g
  BY <1>1, Joined DEF Flows
<1>3. HandAhead'
  <2>1. ASSUME NEW i \in 1..Len(waiting'), NEW j \in 1..Len(waiting'),
               waiting'[i] = "main", waiting'[j] = "hand"
        PROVE  j < i
    <3>1. i > Len(waiting) /\ j \in 1..Len(waiting)
      BY <1>2, <2>1 DEF Free
    <3> QED
      BY <1>2, <3>1
  <2> QED
    BY <2>1 DEF HandAhead
<1>4. pc.hand # "idle" => txn'.by = "hand" \/ \E i \in 1..Len(waiting') : waiting'[i] = "hand"
  BY <1>2 DEF MatchInv, HandFirst
<1>5. CASE pc'.main \in Uploading \cup {"ask"}
  <2>1. pc.hand # "hand"
    BY <1>5 DEF MatchInv, HandFirst, HandAhead
  <2>2. pc'.main \in {"data", "finish", "probe", "release"} => pc.hand = "idle"
    <3>1. txn.by = "main" /\ pc.main \in Uploading => pc.hand = "idle"
      BY DEF MatchInv, HandFirst, HandAhead
    <3> QED
      BY <1>5, <3>1
  <2> QED
    BY <1>3, <1>4, <2>1, <2>2 DEF HandFirst
<1>6. CASE pc'.main \notin Uploading \cup {"ask"}
  BY <1>3, <1>4, <1>6 DEF HandFirst, Uploading
<1> QED
  BY <1>5, <1>6

\* What main leaves behind when its update's request has been answered, or not.
LEMMA MainMatch ==
  ASSUME ConsoleInv, MatchInv, NEW how, NEW data, Closed("main", how, data), Resumes("main", how, data)
  PROVE  MatchInv'
<1>1. /\ replies' = replies \/ (replies # <<>> /\ replies' = Tail(replies))
      /\ Len(requests) + Len(replies') <= 1
      /\ how \in {"lost", "timeout", "failed", "ok"}
      /\ how = "lost" <=> link = "none"
      /\ how = "lost" => requests = <<>> /\ replies = <<>>
      /\ how # "lost" => txn.by = "main"
      /\ how \in {"ok", "failed"} => /\ 1 \in 1..Len(replies) /\ replies[1] = Head(replies)
                                     /\ Len(replies') = Len(replies) - 1
                                     /\ \A i \in 1..Len(replies') :
                                          i + 1 \in 1..Len(replies) /\ replies'[i] = replies[i + 1]
  BY ClosedIs
<1>2. /\ pc.main \in Asking /\ Free("main") /\ txn' = NoTxn /\ link' = link /\ requests' = requests
      /\ requests \in Seq(Requests) /\ replies \in Seq(Replies)
      /\ Len(requests) \in Nat /\ Len(replies) \in Nat
      /\ txn'.by = "none" /\ txn'.left = 0
  BY DEF Closed, NoTxn, ConsoleInv, WireInv, DeviceTypes
<1>3. /\ how = "ok" /\ pc.main \in {"plan", "probe", "reread"} => data \in Infos /\ IsInfo(1)
      /\ how = "ok" /\ pc.main \in {"begin", "data", "finish", "revert"} => ~IsInfo(1)
      /\ how = "failed" => ~IsInfo(1) /\ replies[1].type = "ERROR"
  <2>1. \A s \in {"begin", "data", "finish", "revert"} : Expected(Asks[s]) = "OK"
    BY DEF Asks, Expected
  <2> QED
    BY <1>1, <2>1, ClosedInfo, ExpectedIs DEF Closed, IsInfo
<1>4. /\ pc'.hand = pc.hand
      /\ waiting' \in {waiting, Append(waiting, "main"), Append(waiting, "confirm")}
      /\ (how = "ok" /\ PlanMade(data)) \/ MainNext(how, data) \/ MainOver(how, data)
  BY <1>1, <1>2, <1>3, MainEnds
<1>5. Once'
  BY <1>2 DEF Once
<1>6. HandFirst'
  <2>1. CASE link = "none"
    BY <1>2, <2>1 DEF HandFirst
  <2>2. CASE link # "none"
    <3>1. txn.by = "main"
      BY <1>1, <2>2
    <3>2. pc'.main \in Uploading \cup {"ask"} =>
           \/ pc.main \in Uploading /\ pc'.main \in Uploading
           \/ pc.main = "plan" /\ pc'.main = "ask"
      BY <1>4 DEF PlanMade, MainNext, MainOver, Uploading
    <3> QED
      BY <1>2, <1>4, <2>2, <3>1, <3>2, MainHand
  <2> QED
    BY <2>1, <2>2
<1>7. OneLate'
  BY <1>1, <1>2 DEF OneLate
\* The plan: what comes behind the FW_INFO that was read is FW_INFO too.
<1>8. CASE how = "ok" /\ PlanMade(data)
  <2>1. txn.by = "main" /\ pc.main = "plan" /\ pc'.main = "ask" /\ job'.kind = job.kind /\ replies # <<>>
    BY <1>1, <1>8 DEF PlanMade
  <2>2. \A i \in 1..Len(requests) : requests[i] = "GET_FW_INFO"
    BY <2>1 DEF MatchInv, Planning
  <2>3. \A i \in 1..Len(replies') : IsInfo(i)'
    <3>1. ASSUME NEW i \in 1..Len(replies') PROVE IsInfo(i)'
      <4>1. i + 1 \in 1..Len(replies) /\ replies'[i] = replies[i + 1] /\ i + 1 > 1
        BY <1>1, <1>8
      <4>2. IsInfo(i + 1)
        BY <2>1, <4>1 DEF MatchInv, Planning
      <4> QED
        BY <4>1, <4>2 DEF IsInfo
    <3> QED
      BY <3>1
  <2>4. Planned1' /\ Planning' /\ OwnLast' /\ FinishFirst' /\ Kinds'
    BY <1>2, <2>1, <2>2, <2>3 DEF Planned1, OnlyInfos, Planning, OwnLast, FinishFirst, Kinds
  <2> QED
    BY <1>5, <1>6, <1>7, <2>4 DEF MatchInv
\* An answered request of an update was the only one on the link.
<1>9. ASSUME how \in {"ok", "failed"}, pc.main \in {"begin", "data", "finish"}
      PROVE  requests = <<>> /\ replies' = <<>>
  <2>1. requests = <<>> /\ Len(replies) = 1
    BY <1>1, <1>3, <1>9 DEF MatchInv, OwnLast
  <2> QED
    BY <1>1, <1>2, <1>9, <2>1
<1>10. CASE MainNext(how, data)
  <2>1. job' = job
    BY <1>10 DEF MainNext
  <2>2. CASE pc.main \in {"begin", "data"}
    <3>1. /\ how = "ok" /\ requests = <<>> /\ replies' = <<>>
          /\ pc'.main \in {"data", "finish"}
      BY <1>9, <1>10, <2>2 DEF MainNext
    <3>2. Kinds'
      BY <1>2, <2>1, <2>2, <3>1 DEF MatchInv, Kinds
    <3>3. Planned1' /\ Planning' /\ OwnLast' /\ FinishFirst'
      BY <1>2, <3>1 DEF Planned1, Planning, OwnLast, FinishFirst, NoInfos
    <3> QED
      BY <1>5, <1>6, <1>7, <3>2, <3>3 DEF MatchInv
  <2>3. CASE pc.main \in {"finish", "revert"}
    <3>1. pc'.main = "probe" /\ how = "timeout" /\ replies' = replies
      BY <1>10, <2>3 DEF MainNext, Closed
    <3>2. job.kind = "flash" => pc.main = "finish"
      BY <2>3 DEF MatchInv, Kinds
    <3>3. ASSUME pc.main = "finish" PROVE NoInfos' /\ \A i \in 1..Len(requests) : requests[i] = "OTA_FINISH" /\ i = 1
      <4>1. NoInfos /\ \A i \in 1..Len(requests) : requests[i] = Asks["finish"] /\ i = Len(requests)
        BY <3>3 DEF MatchInv, OwnLast, NoInfos
      <4>2. Asks["finish"] = "OTA_FINISH"
        BY DEF Asks
      <4>3. \A i \in 1..Len(requests) : 1 \in 1..Len(requests) /\ i = 1
        BY <1>2, <4>1
      <4> QED
        BY <1>2, <3>1, <4>1, <4>2, <4>3 DEF NoInfos, IsInfo
    <3>4. FinishFirst'
      BY <1>2, <2>1, <3>1, <3>2, <3>3 DEF FinishFirst, NoInfos
    <3>5. Kinds'
      BY <1>2, <2>1, <3>1 DEF MatchInv, Kinds
    <3> QED
      BY <1>5, <1>6, <1>7, <3>1, <3>4, <3>5 DEF MatchInv, Planned1, Planning, OwnLast
  <2>4. CASE pc.main = "probe"
    <3>1. pc'.main = "release" /\ how = "ok" /\ job.kind = "flash"
      BY <1>10, <2>4 DEF MainNext
    <3>2. \A i \in 1..Len(requests) : requests[i] # "OTA_FINISH"
      BY <1>1, <1>3, <2>4, <3>1 DEF MatchInv, FinishFirst
    <3>3. Kinds'
      BY <1>2, <2>1, <3>1, <3>2 DEF Kinds
    <3> QED
      BY <1>5, <1>6, <1>7, <3>1, <3>3 DEF MatchInv, Planned1, Planning, OwnLast, FinishFirst
  <2> QED
    BY <1>10, <2>2, <2>3, <2>4 DEF MainNext
\* main is over with: OTA_FINISH has been handled, or lost with the link.
<1>11. CASE MainOver(how, data)
  <2>1. ASSUME NEW i \in 1..Len(requests), requests[i] = "OTA_FINISH" PROVE FALSE
    <3>1. pc.main \in {"finish", "probe"} /\ how # "lost"
      BY <1>1, <1>2, <2>1 DEF MatchInv, Kinds
    <3>2. CASE pc.main = "finish"
      BY <1>1, <1>2, <1>9, <1>11, <2>1, <3>1, <3>2 DEF MainOver
    <3>3. CASE pc.main = "probe"
      <4> PICK n \in Nat : n = Len(requests)
        BY <1>2
      <4>1. CASE job.kind = "flash"
        <5>1. n > 1 /\ \A k \in 1..Len(replies) : ~IsInfo(k)
          BY <1>1, <2>1, <3>1, <3>3, <4>1 DEF MatchInv, FinishFirst
        <5>2. Len(replies') \in Nat
          BY <1>1, <1>2, Tailed
        <5>3. Len(requests) + Len(replies') <= 1
          BY <1>1
        <5>4. Len(requests) > 1
          BY <5>1
        <5> QED
          BY <1>2, <5>2, <5>3, <5>4
      <4>2. CASE job.kind # "flash"
        BY <2>1, <3>3, <4>2 DEF MatchInv, Kinds
      <4> QED
        BY <4>1, <4>2
    <3> QED
      BY <3>1, <3>2, <3>3
  <2>2. pc'.main \notin Uploading \cup {"plan", "ask"} /\ job' = job
    BY <1>11 DEF MainOver, Uploading
  <2> QED
    BY <1>1, <1>2, <1>5, <1>6, <2>1, <2>2, LessMatch DEF MatchInv
<1> QED
  BY <1>4, <1>8, <1>10, <1>11

-----------------------------------------------------------------------------
\* However an await ends, the link stays as it is ordered.
LEMMA EndsMatch ==
  ASSUME ConsoleInv, MatchInv, NEW f \in Flows, NEW how, NEW data, Closed(f, how, data), Resumes(f, how, data)
  PROVE  MatchInv'
BY MainMatch, OtherMatch DEF Flows

\* How a step of Receives or TimesOut ends, or the loss of the link.
LEMMA AwaitCloses ==
  ASSUME ConsoleInv, MaxInFlight <= 1, ~Retried, Receives \/ TimesOut
  PROVE  \E f \in Flows : \E how, data : Closed(f, how, data) /\ Resumes(f, how, data)
<1>1. /\ UNCHANGED deviceVars /\ link' = link /\ link # "none" /\ txn # NoTxn
      /\ txn' = NoTxn /\ requests' = requests
  BY DEF Receives, TimesOut, Answers, Here
<1> PICK f \in Flows : f = txn.by
  <2>1. txn.by # "none"
    BY <1>1 DEF ConsoleInv, PageInv, PageTypes, Queued, NoTxn
  <2> QED
    BY <2>1 DEF ConsoleInv, PageInv, PageTypes
<1>2. pc[f] \in Asking /\ Free(f)
  BY DEF ConsoleInv, PageInv, Queued, Free, Flows
<1>3. CASE Receives
  <2>1. replies # <<>> /\ replies' = Tail(replies) /\ Head(replies).type \in {Expected(Asks[pc[f]]), "ERROR"}
    BY <1>3 DEF Receives, Answers
  <2>2. CASE Head(replies).type # "ERROR"
    <3>1. Closed(f, "ok", Head(replies).data)
      BY <1>1, <1>2, <2>1, <2>2 DEF Closed
    <3>2. Resumes(f, "ok", Head(replies).data)
      BY <1>3, <2>2 DEF Receives
    <3> QED
      BY <3>1, <3>2
  <2>3. CASE Head(replies).type = "ERROR"
    <3>1. Closed(f, "failed", NoData)
      BY <1>1, <1>2, <2>1, <2>3 DEF Closed
    <3>2. Resumes(f, "failed", NoData)
      BY <1>3, <2>3 DEF Receives
    <3> QED
      BY <3>1, <3>2
  <2> QED
    BY <2>2, <2>3
<1>4. CASE TimesOut
  <2>1. /\ Len(requests) + Len(replies) <= MaxInFlight /\ replies' = replies
        /\ Resumes(f, "timeout", NoData)
    BY <1>4 DEF TimesOut
  <2>2. Len(requests) \in Nat /\ Len(replies) \in Nat /\ MaxInFlight \in Nat
    BY LimitsAssumption DEF ConsoleInv, WireInv, DeviceTypes
  <2>3. Len(requests) + Len(replies) <= 1
    BY <2>1, <2>2
  <2>4. Closed(f, "timeout", NoData)
    BY <1>1, <1>2, <2>1, <2>3 DEF Closed
  <2> QED
    BY <2>1, <2>4
<1> QED
  BY <1>3, <1>4

\* The awaits on a link that went end as lost, with nothing on the link.
LEMMA LostCloses ==
  ASSUME ConsoleInv, NEW f \in Flows, Lost(f)
  PROVE  Closed(f, "lost", NoData) /\ Resumes(f, "lost", NoData) /\ UNCHANGED deviceVars
<1>1. /\ link = "none" /\ pc[f] \in Asking /\ waiting = <<>> /\ txn = NoTxn /\ UNCHANGED deviceVars
      /\ UNCHANGED <<link, requests, replies, txn>> /\ Resumes(f, "lost", NoData)
  BY DEF Lost, linkVars, ConsoleInv, PageInv, Linked
<1> QED
  BY <1>1 DEF Closed, Free

\* A reply or a timeout takes at most what is first on the link.
LEMMA RepliesMatch ==
  ASSUME ConsoleInv, MatchInv, MaxInFlight <= 1, Receives \/ TimesOut \/ Unsolicited
  PROVE  MatchInv'
<1>1. CASE Unsolicited
  <2>1. /\ replies # <<>> /\ replies' = Tail(replies)
        /\ UNCHANGED <<link, requests, waiting, txn, pc, phase, job>>
    BY <1>1 DEF Unsolicited, updVars
  <2>2. Once' /\ HandFirst'
    BY <2>1 DEF MatchInv, Once, HandFirst, HandAhead
  <2> QED
    BY <2>1, <2>2, LessMatch DEF MatchInv
<1>2. CASE Retried /\ ~Unsolicited
  <2>1. CASE Receives
    BY <1>2, <2>1, RetriedMatch DEF Receives
  <2>2. CASE TimesOut
    <3>1. /\ Len(requests) + Len(replies) <= MaxInFlight /\ replies' = replies /\ link' = link
      BY <2>2 DEF TimesOut
    <3>2. Len(requests) \in Nat /\ Len(replies) \in Nat /\ MaxInFlight \in Nat
      BY LimitsAssumption DEF ConsoleInv, WireInv, DeviceTypes
    <3>3. Len(requests) + Len(replies) <= 1
      BY <3>1, <3>2
    <3> QED
      BY <1>2, <3>1, <3>3, RetriedMatch
  <2> QED
    BY <1>2, <2>1, <2>2
<1>3. CASE ~Retried /\ ~Unsolicited
  BY <1>3, AwaitCloses, EndsMatch
<1> QED
  BY <1>1, <1>2, <1>3

\* Neither the link nor what is pending changes; main goes on to no request of an update.
LEMMA AsideMatch ==
  ASSUME ConsoleInv, MatchInv, UNCHANGED <<requests, replies, txn, link>>, job'.kind = job.kind,
         HandFirst', pc'.main = pc.main \/ (pc'.main \notin Uploading \cup {"plan", "ask"}
                                              /\ pc.main \notin Asking)
  PROVE  MatchInv'
<1>1. pc.main \notin Asking => txn.by # "main" /\ \A i \in 1..Len(requests) : requests[i] # "OTA_FINISH"
  BY AskingIs DEF ConsoleInv, PageInv, Queued, MatchInv, Kinds
<1>2. Once'
  BY <1>1 DEF MatchInv, Once
<1> QED
  BY <1>1, <1>2, LessMatch DEF MatchInv

\* Another function than main and hand goes on, behind those that wait.
LEMMA BesideMatch ==
  ASSUME ConsoleInv, MatchInv, UNCHANGED <<requests, replies, txn, link>>, job' = job,
         NEW g \in Flows, g \notin {"main", "hand"}, waiting' \in {waiting, Append(waiting, g)},
         pc'.main = pc.main, pc'.hand = pc.hand
  PROVE  MatchInv'
<1>1. /\ \A i \in 1..Len(waiting) : i \in 1..Len(waiting') /\ waiting'[i] = waiting[i]
      /\ \A i \in 1..Len(waiting') : waiting'[i] \in {"main", "hand"} =>
           i \in 1..Len(waiting) /\ waiting'[i] = waiting[i]
  BY Joined
<1>2. HandAhead => HandAhead'
  BY <1>1 DEF HandAhead
<1>3. HandFirst'
  BY <1>1, <1>2 DEF MatchInv, HandFirst
<1> QED
  BY <1>3, AsideMatch

\* The page's timers send nothing.
LEMMA TimersMatch ==
  ASSUME ConsoleInv, MatchInv,
         DropSeen \/ DropWaitOver \/ Wakes \/ DiscoveryOver \/ GivesUp \/ TransportGone
  PROVE  MatchInv'
<1>0. pc \in [Flows -> Steps]
  BY DEF ConsoleInv, PageInv, PageTypes
<1>1. CASE DropSeen
  <2>1. /\ pc.main = "drop_wait" /\ link = "none" /\ pc'.main = "idle"
        /\ UNCHANGED <<requests, replies, txn, link, job>>
    BY <1>0, <1>1 DEF DropSeen, Goes, linkVars, updVars, Flows
  <2> QED
    BY <2>1, AsideMatch, AskingIs DEF HandFirst, Uploading
<1>2. CASE DropWaitOver
  <2>1. /\ pc.main = "drop_wait" /\ link # "none" /\ pc'.main = "reread" /\ pc'.hand = pc.hand
        /\ UNCHANGED <<requests, replies, txn, link, job>>
        /\ waiting' \in {waiting, Append(waiting, "main")}
    BY <1>0, <1>2 DEF DropWaitOver, Goes, linkVars, updVars, Flows, Here
  <2>2. Free("main") /\ txn.by # "main"
    BY <2>1, AskingIs DEF ConsoleInv, PageInv, Queued, Free
  <2>3. HandFirst'
    BY <2>1, <2>2, MainHand DEF Uploading
  <2> QED
    BY <2>1, <2>3, AsideMatch, AskingIs DEF Uploading
<1>3. CASE Wakes
  <2>1. /\ pc'.main = pc.main /\ pc'.hand = pc.hand
        /\ UNCHANGED <<requests, replies, txn, link, job>>
        /\ waiting' \in {waiting, Append(waiting, "report")}
    BY <1>0, <1>3 DEF Wakes, Goes, linkVars, Flows
  <2> QED
    BY <2>1, BesideMatch DEF Flows
<1>4. CASE DiscoveryOver
  <2>1. /\ pc'.main = pc.main /\ pc'.hand = pc.hand
        /\ UNCHANGED <<requests, replies, txn, link, job>>
        /\ waiting' \in {waiting, Append(waiting, "conn")}
    BY <1>0, <1>4 DEF DiscoveryOver, Goes, linkVars, updVars, Flows
  <2> QED
    BY <2>1, BesideMatch DEF Flows
<1>5. CASE GivesUp
  <2>1. UNCHANGED <<requests, replies, txn, link, job, pc, waiting>>
    BY <1>5 DEF GivesUp, linkVars
  <2> QED
    BY <2>1, BesideMatch DEF Flows
<1>6. CASE TransportGone
  <2>1. /\ link' = "none" /\ link = "dead" /\ replies' = <<>> /\ requests' = requests /\ txn' = NoTxn
        /\ job' = job /\ pc'.main \in {pc.main, "idle"}
    BY <1>0, <1>6 DEF TransportGone, Flows
  <2>2. requests' = <<>> /\ txn'.left = 0
    BY <2>1 DEF ConsoleInv, WireInv, NoTxn
  <2>3. Once' /\ HandFirst' /\ Kinds'
    BY <2>1, <2>2 DEF MatchInv, Once, HandFirst, Kinds
  <2>4. OneLate' /\ Planning' /\ Planned1' /\ OwnLast' /\ FinishFirst'
    BY <2>1, <2>2 DEF OneLate, Planning, Planned1, OwnLast, FinishFirst, OnlyInfos, NoInfos
  <2> QED
    BY <2>3, <2>4 DEF MatchInv
<1> QED
  BY <1>1, <1>2, <1>3, <1>4, <1>5, <1>6

\* A new link: nobody asks for anything.
LEMMA ConnectsMatch ==
  ASSUME ConsoleInv, MatchInv, ~MustRun, Connects
  PROVE  MatchInv'
<1>1. /\ link = "none" /\ pc' = [pc EXCEPT !.conn = "discover"]
      /\ UNCHANGED <<requests, replies, txn, job, waiting>>
      /\ pc \in [Flows -> Steps] /\ pc.main # "ask" /\ waiting = <<>>
  BY AskingIs DEF Connects, Goes, updVars, ConsoleInv, PageInv, PageTypes, WireInv, Linked
<1>2. pc.hand \notin Asking /\ pc.main \notin Asking
  BY <1>1 DEF MustRun, Here, Flows
<1>3. pc.hand \in StepsOf["hand"]
  BY DEF ConsoleInv, PageInv, OwnSteps, Flows
<1>4. pc'.hand = "idle" /\ pc'.main = pc.main /\ pc.main \notin Uploading \cup {"ask"}
  BY <1>1, <1>2, <1>3, AskingIs DEF StepsOf, Flows, Uploading
<1>5. HandFirst'
  BY <1>1, <1>4 DEF HandFirst
<1>6. Once'
  BY <1>1, <1>4 DEF MatchInv, Once
<1> QED
  BY <1>1, <1>4, <1>5, <1>6, LessMatch DEF MatchInv

\* What a person begins waits for its turn: the plan, then the request agreed to.
LEMMA PersonMatch ==
  ASSUME ConsoleInv, MatchInv, ~MustRun, Person
  PROVE  MatchInv'
<1>0. pc \in [Flows -> Steps] /\ job \in Jobs
  BY DEF ConsoleInv, PageInv, PageTypes
<1>1. CASE PersonConnects
  BY <1>1, ConnectsMatch DEF PersonConnects
<1>2. ASSUME pc.main \in {"idle", "ask"}
      PROVE  Free("main") /\ txn.by # "main" /\ \A i \in 1..Len(requests) : requests[i] # "OTA_FINISH"
  BY <1>2, AskingIs DEF ConsoleInv, PageInv, Queued, Free, MatchInv, Kinds
<1>3. ASSUME NEW kind \in {"flash", "revert"}, StartsUpdate(kind) PROVE MatchInv'
  <2>1. /\ pc.main = "idle" /\ link # "none" /\ pc'.main = "plan" /\ pc'.hand = pc.hand
        /\ UNCHANGED <<requests, replies, txn, link>>
        /\ waiting' \in {waiting, Append(waiting, "main")}
    BY <1>0, <1>3 DEF StartsUpdate, Goes, linkVars, Flows, Here
  <2>2. HandFirst'
    BY <1>2, <2>1, MainHand DEF Uploading
  <2>3. Once' /\ OneLate' /\ Kinds'
    BY <1>2, <2>1 DEF MatchInv, Once, OneLate, Kinds
  <2>4. Planning' /\ Planned1' /\ OwnLast' /\ FinishFirst'
    BY <1>2, <2>1 DEF Planning, Planned1, OwnLast, FinishFirst
  <2> QED
    BY <2>2, <2>3, <2>4 DEF MatchInv
<1>4. CASE Agrees
  <2>1. /\ pc.main = "ask" /\ pc'.main = (IF job.kind = "flash" THEN "begin" ELSE "revert")
        /\ pc'.hand = pc.hand /\ UNCHANGED <<requests, replies, txn, link, job>>
        /\ waiting' \in {waiting, Append(waiting, "main")} /\ link # "none"
    BY <1>0, <1>4 DEF Agrees, Goes, linkVars, Flows, ConsoleInv, PageInv, Linked
  <2>2. HandFirst'
    BY <1>2, <2>1, MainHand DEF Uploading
  <2>3. Once' /\ OneLate'
    BY <1>2, <2>1 DEF MatchInv, Once, OneLate
  <2>4. Kinds'
    BY <1>0, <1>2, <2>1 DEF Kinds, Jobs
  <2>5. OnlyInfos /\ OnlyInfos'
    BY <2>1 DEF MatchInv, Planned1, OnlyInfos, IsInfo
  <2>6. Planning' /\ Planned1' /\ OwnLast' /\ FinishFirst'
    BY <2>1, <2>5 DEF Planning, Planned1, OwnLast, FinishFirst, OnlyInfos
  <2> QED
    BY <2>2, <2>3, <2>4, <2>6 DEF MatchInv
<1>5. CASE Declines
  <2>1. /\ pc.main = "ask" /\ pc'.main = "idle" /\ pc'.hand = pc.hand
        /\ UNCHANGED <<requests, replies, txn, link, job, waiting>> /\ link # "none"
    BY <1>0, <1>5, AskingIs DEF Declines, Goes, linkVars, updVars, Flows, ConsoleInv, PageInv, Linked
  <2>2. HandFirst'
    BY <1>2, <2>1, MainHand DEF Uploading
  <2> QED
    BY <2>1, <2>2, AsideMatch, AskingIs DEF Uploading
<1>6. CASE RestartNow
  <2>1. /\ pc.main = "idle" /\ pc'.main = "restart" /\ pc'.hand = pc.hand /\ link # "none"
        /\ UNCHANGED <<requests, replies, txn, link, job>>
        /\ waiting' \in {waiting, Append(waiting, "main")}
    BY <1>0, <1>6 DEF RestartNow, Goes, linkVars, Flows, Here
  <2>2. HandFirst'
    BY <1>2, <2>1, MainHand DEF Uploading
  <2> QED
    BY <2>1, <2>2, AsideMatch, AskingIs DEF Uploading
<1>7. CASE PressMarkValid
  <2>1. /\ pc.main \in {"idle", "drop_wait", "reread"} /\ pc'.main = pc.main
        /\ waiting' = Append(waiting, "hand")
        /\ UNCHANGED <<requests, replies, txn, link, job>>
    BY <1>0, <1>7, AskingIs DEF PressMarkValid, Busy, Goes, linkVars, updVars, Flows
  <2>2. \E i \in 1..Len(waiting') : waiting'[i] = "hand"
    BY <2>1, Joined DEF Flows
  <2>3. HandFirst'
    BY <2>1, <2>2 DEF HandFirst, Uploading
  <2> QED
    BY <2>1, <2>3, AsideMatch
<1> QED
  BY <1>1, <1>3, <1>4, <1>5, <1>6, <1>7 DEF Person

\* No step disturbs the order in which a reply answers the request that is main's.
LEMMA MatchInvNext ==
  ASSUME ConsoleInv, MatchInv, MaxInFlight <= 1, [Next]_vars
  PROVE  MatchInv'
<1>1. CASE Runs
  BY <1>1, SendsMatch, LostCloses, EndsMatch DEF Runs
<1>2. CASE Device \/ Crashes \/ LinkDrops
  BY <1>2, DeviceMatch
<1>3. CASE ~MustRun /\ Console
  BY <1>3, RepliesMatch, TimersMatch, ConnectsMatch DEF Console, AutoConnects
<1>4. CASE ~MustRun /\ Person
  BY <1>4, PersonMatch
<1>5. CASE UNCHANGED vars
  <2>1. UNCHANGED <<requests, replies, txn, link, job, pc, waiting>>
    BY <1>5 DEF vars, linkVars, updVars
  <2> QED
    BY <2>1, BesideMatch DEF Flows
<1> QED
  BY <1>1, <1>2, <1>3, <1>4, <1>5 DEF Next

\* It holds of a page that has just connected.
LEMMA MatchInvInit == Init => MatchInv
<1> SUFFICES ASSUME Init PROVE MatchInv
  OBVIOUS
<1>1. /\ requests = <<>> /\ replies = <<>> /\ txn = NoTxn /\ pc = [f \in Flows |-> "idle"]
  BY DEF Init
<1>2. pc.main = "idle" /\ pc.hand = "idle" /\ txn.by = "none"
  BY <1>1 DEF Flows, NoTxn
<1>3. Once /\ HandFirst /\ Kinds
  BY <1>1, <1>2 DEF Once, HandFirst, Kinds, Uploading
<1> QED
  BY <1>1, <1>3, NothingLate DEF MatchInv

-----------------------------------------------------------------------------
\* The slot that holds the image of the last update, complete.
Fresh(s) == updates > 0 /\ origin[s] = updates /\ image[s] = "full"

Begun ==
  /\ phase # "none" \/ pc.main \in {"plan", "ask"} => updates > 0
  /\ \A s \in Slots : origin[s] <= updates
FlashPlain == Planned /\ job.kind = "flash" => ~job.trial

\* While main is at its update the image it was planned from runs, and FW_INFO is about
\* that image.
PlannedFrom ==
  pc.main \in Uploading \cup {"ask"} =>
    /\ link = "open" => running = Other(job.slot)
    /\ \A i \in 1..Len(replies) : IsInfo(i) => replies[i].data.running = Other(job.slot)
InfoTrue ==
  \A i \in 1..Len(replies) : IsInfo(i) => replies[i].data.version = version[replies[i].data.running]

\* OTA_BEGIN has been handled: the slot is the file's.
Accepted == \E i \in 1..Len(replies) : replies[i].type = "OK"
BeginOver ==
  \/ pc.main \in {"data", "finish"}
  \/ pc.main = "probe" /\ job.kind = "flash"
  \/ pc.main = "begin" /\ Accepted
Uploaded == BeginOver => version[job.slot] = job.version

\* A complete image of the last update came with its OTA_FINISH, which main sent and
\* which nothing but OK answers; FW_INFO that shows the device back at the old image was
\* sent when it was.
FreshIs ==
  \A s \in Slots : Fresh(s) =>
    /\ s = job.slot /\ job.kind = "flash" /\ version[s] = job.version
    /\ phase # "none" /\ ~OnTheWay
    /\ pc.main \notin {"plan", "ask", "begin", "data", "revert"}
    /\ pc.main = "finish" =>
         /\ txn.by = "main" \/ link = "none"
         /\ \A i \in 1..Len(replies) : replies[i].type # "ERROR"
    /\ \A i \in 1..Len(replies) :
         IsInfo(i) /\ replies[i].data.running # s /\ replies[i].data.boot # s => boot # s
NotBooted == \A s \in Slots : Fresh(s) => boot # s
Excluded ==
  /\ said \in Exclusions => phase = "done"
  /\ said \in Exclusions \/ pc.main = "release" => NotBooted

UploadInv ==
  /\ Begun /\ FlashPlain /\ PlannedFrom /\ InfoTrue /\ Uploaded /\ FreshIs /\ Excluded

-----------------------------------------------------------------------------
\* A step of the page that leaves the device alone and begins no update.
Carries ==
  /\ UNCHANGED <<image, boot, running, version, origin, updates>>
  /\ \A i \in 1..Len(replies') : \E j \in 1..Len(replies) : replies'[i] = replies[j]
  /\ link' \in {link, "none"} \/ pc.main \notin Uploading \cup {"ask"}
  /\ OnTheWay' => \/ OnTheWay
                  \/ pc.main \in {"begin", "data", "revert"}
                  \/ pc.main = "finish" /\ txn.by # "main" /\ link # "none"

\* The step that main goes on to, and what the page then says.
Advances ==
  \/ pc'.main = pc.main /\ (pc.main = "finish" /\ txn.by = "main" => txn'.by = "main" \/ link' = "none")
  \/ pc'.main \notin Uploading \cup {"plan", "ask"}
  \/ pc.main = "ask" /\ pc'.main \in {"begin", "revert"}
  \/ pc.main = "begin" /\ pc'.main = "data" /\ Accepted
  \/ pc.main = "data" /\ pc'.main = "finish"
  \/ pc.main = "finish" /\ pc'.main = "probe"
  \/ pc.main = "revert" /\ pc'.main = "probe"
  \/ pc.main = "probe" /\ pc'.main = "release" /\ NotBooted
Concludes ==
  /\ job' = job
  /\ phase' # phase => phase' # "none" /\ (phase # "none" \/ pc.main = "ask")
  /\ said' \in Exclusions => phase' = "done" /\ (said' = said \/ NotBooted)

\* A step of the page keeps what is known of the update when it is one of Carries,
\* goes on as Advances says and says no more than Concludes lets it.
LEMMA PageUpload ==
  ASSUME ConsoleInv, WordInv, MatchInv, UploadInv, Carries, Advances, Concludes
  PROVE  UploadInv'
<1>1. /\ UNCHANGED <<image, boot, running, version, origin, updates, job>>
      /\ \A i \in 1..Len(replies') : \E j \in 1..Len(replies) :
           replies'[i] = replies[j] /\ (IsInfo(i)' <=> IsInfo(j))
  BY DEF Carries, Concludes, IsInfo
<1>2. /\ pc'.main \in {"plan", "ask"} => pc'.main = pc.main
      /\ pc'.main \in Uploading => pc.main \in Uploading \cup {"ask"}
      /\ pc'.main = "begin" => pc.main \in {"ask", "begin"}
      /\ pc'.main = "data" => pc.main \in {"begin", "data"}
      /\ pc'.main = "revert" => pc.main \in {"ask", "revert"}
  BY DEF Advances, Uploading
<1>3. Begun'
  BY <1>1, <1>2 DEF UploadInv, Begun, Concludes
<1>4. FlashPlain'
  BY <1>1, <1>2 DEF UploadInv, FlashPlain, Planned, Concludes
<1>5. PlannedFrom'
  <2> SUFFICES ASSUME pc'.main \in Uploading \cup {"ask"} PROVE PlannedFrom'
    BY DEF PlannedFrom
  <2>1. pc.main \in Uploading \cup {"ask"}
    BY <1>2
  <2> QED
    BY <1>1, <2>1 DEF UploadInv, PlannedFrom, Carries
<1>6. InfoTrue'
  BY <1>1 DEF UploadInv, InfoTrue
<1>7. Uploaded'
  <2>1. Accepted' => Accepted
    BY <1>1 DEF Accepted
  <2>2. pc.main = "ask" => ~Accepted
    BY DEF MatchInv, Planned1, OnlyInfos, IsInfo, Accepted
  <2>3. pc.main = "revert" => job.kind # "flash"
    BY DEF MatchInv, Kinds
  <2>4. BeginOver' => BeginOver
    BY <1>1, <2>1, <2>2, <2>3 DEF Advances, Uploading, BeginOver
  <2> QED
    BY <1>1, <2>4 DEF UploadInv, Uploaded
<1>8. \A s \in Slots : Fresh(s)' => Fresh(s)
  BY <1>1 DEF Fresh
<1>9. FreshIs'
  <2> SUFFICES ASSUME NEW s \in Slots, Fresh(s)'
               PROVE  /\ s = job'.slot /\ job'.kind = "flash" /\ version'[s] = job'.version
                      /\ phase' # "none" /\ ~OnTheWay'
                      /\ pc'.main \notin {"plan", "ask", "begin", "data", "revert"}
                      /\ pc'.main = "finish" =>
                           /\ txn'.by = "main" \/ link' = "none"
                           /\ \A i \in 1..Len(replies') : replies'[i].type # "ERROR"
                      /\ \A i \in 1..Len(replies') :
                           IsInfo(i)' /\ replies'[i].data.running # s /\ replies'[i].data.boot # s
                             => boot' # s
    BY DEF FreshIs
  <2>1. /\ s = job.slot /\ job.kind = "flash" /\ version[s] = job.version
        /\ phase # "none" /\ ~OnTheWay
        /\ pc.main \notin {"plan", "ask", "begin", "data", "revert"}
        /\ pc.main = "finish" =>
             /\ txn.by = "main" \/ link = "none"
             /\ \A i \in 1..Len(replies) : replies[i].type # "ERROR"
        /\ \A i \in 1..Len(replies) :
             IsInfo(i) /\ replies[i].data.running # s /\ replies[i].data.boot # s => boot # s
    BY <1>8 DEF UploadInv, FreshIs
  <2>2. s = job'.slot /\ job'.kind = "flash" /\ version'[s] = job'.version /\ phase' # "none"
    BY <1>1, <2>1 DEF Concludes
  <2>3. ~OnTheWay' /\ pc'.main \notin {"plan", "ask", "begin", "data", "revert"}
    BY <1>2, <2>1 DEF Carries
  <2>4. ASSUME pc'.main = "finish"
        PROVE  /\ txn'.by = "main" \/ link' = "none"
               /\ \A i \in 1..Len(replies') : replies'[i].type # "ERROR"
    <3>1. pc.main = "finish" /\ (txn.by = "main" => txn'.by = "main" \/ link' = "none")
      BY <2>1, <2>4 DEF Advances, Uploading
    <3>2. link = "none" => link' = "none"
      BY <3>1 DEF Carries, Uploading
    <3> QED
      BY <1>1, <2>1, <3>1, <3>2
  <2>5. \A i \in 1..Len(replies') :
           IsInfo(i)' /\ replies'[i].data.running # s /\ replies'[i].data.boot # s => boot' # s
    BY <1>1, <2>1
  <2> QED
    BY <2>2, <2>3, <2>4, <2>5
<1>10. Excluded'
  <2>1. NotBooted => NotBooted'
    BY <1>1, <1>8 DEF NotBooted
  <2>2. pc'.main = "release" => NotBooted
    BY DEF UploadInv, Excluded, Advances, Uploading
  <2> QED
    BY <2>1, <2>2 DEF UploadInv, Excluded, Concludes
<1> QED
  BY <1>3, <1>4, <1>5, <1>6, <1>7, <1>9, <1>10 DEF UploadInv

\* A FW_INFO from which decideOutcome() finds a rollback was sent from the old image,
\* which the device is set to start.
LEMMA RolledBackIs ==
  ASSUME ConsoleInv, WordInv, UploadInv, phase # "none", NEW i \in 1..Len(replies), IsInfo(i),
         Outcome(replies[i].data) = "rolled_back"
  PROVE  NotBooted
<1> DEFINE info == replies[i].data
<1>1. /\ info.running \in Slots /\ info.pending \in BOOLEAN /\ info.version \in Versions
  BY InfoTyped DEF ConsoleInv
<1>2. /\ info.version = job.before /\ info.version # job.version
      /\ info.pending \/ info.boot = info.running
  BY <1>1 DEF Outcome
<1> SUFFICES ASSUME NEW s \in Slots, Fresh(s) PROVE boot # s
  BY DEF NotBooted
<1>3. /\ s = job.slot /\ job.kind = "flash" /\ version[s] = job.version
      /\ info.running # s /\ info.boot # s => boot # s
  BY DEF UploadInv, FreshIs
<1>4. info.running # s
  BY <1>2, <1>3 DEF UploadInv, InfoTrue
<1>5. ~job.trial /\ Planned
  BY <1>3 DEF UploadInv, FlashPlain, Planned
<1>6. ~info.pending
  BY <1>3, <1>4, <1>5 DEF WordInv, Remembered
<1> QED
  BY <1>2, <1>3, <1>4, <1>6

\* The probe finds the device set to start the image that runs.
LEMMA ProbeIs ==
  ASSUME ConsoleInv, UploadInv, pc.main = "probe", NEW i \in 1..Len(replies), IsInfo(i),
         replies[i].data.boot = replies[i].data.running
  PROVE  NotBooted
<1> SUFFICES ASSUME NEW s \in Slots, Fresh(s) PROVE boot # s
  BY DEF NotBooted
<1>1. s = job.slot /\ (replies[i].data.running # s /\ replies[i].data.boot # s => boot # s)
  BY DEF UploadInv, FreshIs
<1>2. replies[i].data.running = Other(s)
  BY <1>1 DEF UploadInv, PlannedFrom, Uploading
<1> QED
  BY <1>1, <1>2, OtherSlot

\* The verdict that an update was not installed: the device has refused it, or was asked.
LEMMA NotInstalledIs ==
  ASSUME ConsoleInv, MatchInv, UploadInv, NEW how, NEW data, Closed("main", how, data), NotInstalledBy(how)
  PROVE  NotBooted
<1> SUFFICES ASSUME NEW s \in Slots, Fresh(s) PROVE boot # s
  BY DEF NotBooted
<1>1. /\ job.kind = "flash" /\ pc.main \notin {"begin", "data", "revert"}
      /\ pc.main = "finish" => \A i \in 1..Len(replies) : replies[i].type # "ERROR"
  BY DEF UploadInv, FreshIs
<1>2. how = "failed" => 1 \in 1..Len(replies) /\ replies[1].type = "ERROR"
  BY ClosedIs DEF Closed
<1>3. pc.main = "release"
  BY <1>1, <1>2 DEF NotInstalledBy
<1> QED
  BY <1>3 DEF UploadInv, Excluded, NotBooted

\* A flow beside main says of an update that it was excluded only as a rollback it read.
LEMMA OtherSays ==
  ASSUME ConsoleInv, WordInv, NEW f \in {"conn", "report", "confirm", "hand"}, NEW how, NEW data,
         pc[f] \in Asking, Resumes(f, how, data), how = "lost" <=> link = "none",
         how = "ok" /\ f \in {"conn", "report"} => data \in Infos
  PROVE  /\ SaysNoMore \/ (RolledBackBy(how, data) /\ f \in {"conn", "report"})
         /\ phase' # phase => phase # "none" /\ phase' # "none"
<1>1. CASE f = "conn"
  <2>1. UpdateReconnected(how, data, [pc EXCEPT !.conn = "idle"])
    BY <1>1 DEF Resumes, Informs
  <2>2. phase' # phase => phase = "rebooting"
    BY <2>1 DEF UpdateReconnected
  <2>3. SaysNoMore \/ RolledBackBy(how, data)
    BY <1>1, <2>1, ReconnectedSays
  <2> QED
    BY <1>1, <2>2, <2>3 DEF SaysNoMore, RolledBackBy
<1>2. CASE f = "report"
  <2>1. ReadsAgain(how, data)
    BY <1>2 DEF Resumes
  <2>2. phase \in {"rebooting", "switched_no_restart"}
    BY <2>1 DEF ReadsAgain, ConsoleInv, PageInv, ReportPhase
  <2>3. CASE how = "ok"
    BY <1>2, <2>1, <2>2, <2>3, ReportsSays DEF ReadsAgain, SaysNoMore, RolledBackBy
  <2>4. CASE how # "ok"
    BY <2>1, <2>2, <2>4 DEF ReadsAgain, SaysNoMore, Ends, Exclusions
  <2> QED
    BY <2>3, <2>4
<1>3. CASE f = "confirm"
  <2>1. Confirms(how, data)
    BY <1>3 DEF Resumes
  <2>2. CASE how = "lost"
    BY <2>1, <2>2 DEF Confirms, NextCheck, SaysNoMore
  <2>3. CASE how # "lost"
    <3>1. phase = "confirming"
      BY <1>3, <2>3, AskingIs DEF WordInv, Confirming
    <3>2. \/ UNCHANGED <<phase, said>>
          \/ phase' = "waiting_rollback" /\ said' = said
          \/ phase' = "done" /\ said' \in {"confirmed", "not_confirmed"}
      BY <2>1, <2>3 DEF Confirms, ChecksDevice, ChecksProtocol, ChecksSensor, MarksValid, CheckFails,
                        Confirmed, NotConfirmed, NextCheck, Ends
    <3> QED
      BY <3>1, <3>2 DEF SaysNoMore, Exclusions
  <2> QED
    BY <2>2, <2>3
<1>4. CASE f = "hand"
  <2>1. MarksByHand(how, data)
    BY <1>4 DEF Resumes
  <2> QED
    BY <2>1 DEF MarksByHand, Ends, SaysNoMore, Exclusions
<1> QED
  BY <1>1, <1>2, <1>3, <1>4

\* An await ends: the page says no more than what has just been shown.
LEMMA EndConcludes ==
  ASSUME ConsoleInv, WordInv, MatchInv, UploadInv, NEW f \in Flows, NEW how, NEW data,
         Closed(f, how, data), Resumes(f, how, data), ~(f = "main" /\ how = "ok" /\ PlanMade(data))
  PROVE  Advances /\ Concludes
<1>1. /\ how \in {"lost", "timeout", "failed", "ok"} /\ (how = "lost" <=> link = "none")
      /\ link' = link /\ pc[f] \in Asking /\ (how # "lost" => txn.by = f)
  BY ClosedIs DEF Closed
<1>2. ASSUME how = "ok", Expected(Asks[pc[f]]) = "FW_INFO"
      PROVE  IsInfo(1) /\ 1 \in 1..Len(replies) /\ replies[1].data = data /\ data \in Infos
  BY <1>2, ClosedInfo
<1>3. ASSUME SaysNoMore \/ (NotBooted /\ phase' = "done")
      PROVE  said' \in Exclusions => phase' = "done" /\ (said' = said \/ NotBooted)
  BY <1>3 DEF SaysNoMore, UploadInv, Excluded
<1>4. ASSUME RolledBackBy(how, data), Expected(Asks[pc[f]]) = "FW_INFO"
      PROVE  NotBooted /\ phase' = "done"
  BY <1>2, <1>4, RolledBackIs DEF RolledBackBy
<1>5. CASE f # "main"
  <2>1. /\ pc'.main = pc.main /\ job' = job /\ f \in {"conn", "report", "confirm", "hand"}
    BY <1>1, <1>5, OtherEnds DEF Flows
  <2>2. f \in {"conn", "report"} => Expected(Asks[pc[f]]) = "FW_INFO"
    BY <1>1, AskingIs, ExpectedIs DEF ConsoleInv, PageInv, OwnSteps, StepsOf
  <2>3. /\ SaysNoMore \/ (RolledBackBy(how, data) /\ f \in {"conn", "report"})
        /\ phase' # phase => phase # "none" /\ phase' # "none"
    BY <1>1, <1>2, <2>1, <2>2, OtherSays
  <2>4. Concludes
    <3>1. SaysNoMore \/ (NotBooted /\ phase' = "done")
      BY <1>4, <2>2, <2>3
    <3>2. said' \in Exclusions => phase' = "done" /\ (said' = said \/ NotBooted)
      BY <1>3, <3>1
    <3> QED
      BY <2>1, <2>3, <3>2 DEF Concludes
  <2>5. pc.main = "finish" => link = "none"
    BY <1>1, <1>5, OthersAsk
  <2> QED
    BY <1>1, <2>1, <2>4, <2>5 DEF Advances
<1>6. CASE f = "main"
  <2>1. \A s \in {"plan", "probe", "reread"} : Expected(Asks[s]) = "FW_INFO"
    BY ExpectedIs
  <2>2. MainNext(how, data) \/ MainOver(how, data)
    BY <1>1, <1>2, <1>6, <2>1, MainEnds DEF Closed
  <2>3. phase # "none" \/ phase' = phase
    <3>1. pc.main = "plan" => phase' = phase
      BY <1>6 DEF Resumes, Plans, Writes, Switches, Probes, Releases, Restarted, Rereads
    <3> QED
      BY <1>1, <1>6, <3>1, AskingIs DEF WordInv, Ongoing
  <2>4. CASE MainNext(how, data)
    <3>1. pc.main = "begin" /\ how = "ok" => Accepted
      <4>1. \A s \in {"begin"} : Expected(Asks[s]) = "OK"
        BY DEF Asks, Expected
      <4> QED
        BY <1>6, <4>1, ClosedIs DEF Closed, Accepted
    <3>2. pc.main = "probe" /\ data.boot = data.running /\ how = "ok" => NotBooted
      BY <1>2, <1>6, <2>1, ProbeIs
    <3>3. Advances
      BY <2>4, <3>1, <3>2 DEF MainNext, Advances
    <3> QED
      BY <2>4, <3>3 DEF MainNext, Concludes, UploadInv, Excluded
  <2>5. CASE MainOver(how, data)
    <3>1. Advances
      BY <2>5 DEF MainOver, Advances, Uploading
    <3>2. /\ SaysNoMore \/ (NotBooted /\ phase' = "done")
          /\ phase' # phase => phase' # "none"
      <4>1. CASE SaysNoMore
        BY <4>1 DEF SaysNoMore
      <4>2. CASE RolledBackBy(how, data) /\ pc.main = "reread"
        BY <1>4, <1>6, <2>1, <4>2
      <4>3. CASE NotInstalledBy(how)
        BY <1>6, <4>3, NotInstalledIs DEF NotInstalledBy
      <4> QED
        BY <2>5, <4>1, <4>2, <4>3 DEF MainOver
    <3>3. said' \in Exclusions => phase' = "done" /\ (said' = said \/ NotBooted)
      BY <1>3, <3>2
    <3>4. job' = job
      BY <2>5 DEF MainOver
    <3> QED
      BY <2>3, <3>1, <3>2, <3>3, <3>4 DEF Concludes
  <2> QED
    BY <2>2, <2>4, <2>5
<1> QED
  BY <1>5, <1>6

\* A plan: FW_INFO on the link is of the boot it was made from, and nothing is fresh.
LEMMA PlanUpload ==
  ASSUME ConsoleInv, WordInv, UploadInv, UNCHANGED <<deviceVars, updates>>,
         NEW data, Closed("main", "ok", data), PlanMade(data)
  PROVE  UploadInv'
<1>1. /\ pc.main = "plan" /\ pc'.main = "ask" /\ phase = "none" /\ phase' = "none" /\ said' = said
      /\ job'.kind = job.kind /\ job'.trial = data.pending /\ job'.slot = Other(data.running)
      /\ (job.kind = "flash" => ~data.pending)
  BY DEF PlanMade, Usable, ConsoleInv, PageInv, MainPhase
<1>2. /\ link' = link /\ replies # <<>> /\ replies' = Tail(replies)
      /\ UNCHANGED <<image, boot, running, version, origin, updates>>
  BY DEF Closed, deviceVars, flashVars, imageVars
<1>3. /\ IsInfo(1) /\ 1 \in 1..Len(replies) /\ replies[1].data = data /\ data \in Infos
  BY <1>1, ClosedInfo, ExpectedIs
<1>4. ASSUME NEW i \in 1..Len(replies'), IsInfo(i)'
      PROVE  /\ i + 1 \in 1..Len(replies) /\ IsInfo(i + 1) /\ replies'[i] = replies[i + 1]
  BY <1>2, <1>4, Tailed DEF ConsoleInv, WireInv, DeviceTypes, IsInfo
<1>5. \A s \in Slots : ~Fresh(s) /\ ~Fresh(s)'
  <2>1. \A s \in Slots : ~Fresh(s)
    BY <1>1 DEF UploadInv, FreshIs
  <2> QED
    BY <1>2, <2>1 DEF Fresh
<1>6. said \notin Exclusions
  BY <1>1 DEF UploadInv, Excluded
<1>7. PlannedFrom'
  <2>1. data.running = Other(job'.slot)
    BY <1>1, <1>3, OtherSlot DEF Infos
  <2>2. link = "open" => running = data.running
    BY <1>3 DEF WordInv, Told
  <2>3. ASSUME NEW i \in 1..Len(replies'), IsInfo(i)' PROVE replies'[i].data.running = data.running
    BY <1>3, <1>4, <2>3 DEF WordInv, Told
  <2> QED
    BY <1>2, <2>1, <2>2, <2>3 DEF PlannedFrom
<1>8. InfoTrue'
  BY <1>2, <1>4 DEF UploadInv, InfoTrue
<1>9. Begun' /\ FlashPlain' /\ Uploaded'
  BY <1>1, <1>2 DEF UploadInv, Begun, FlashPlain, Uploaded, BeginOver
<1>10. FreshIs' /\ Excluded'
  BY <1>1, <1>5, <1>6 DEF FreshIs, Excluded
<1> QED
  BY <1>7, <1>8, <1>9, <1>10 DEF UploadInv

\* What a step that leaves the device alone may do to the link.
LEMMA PageCarries ==
  ASSUME ConsoleInv, MatchInv, UNCHANGED <<deviceVars, updates>>,
         link' \in {link, "none"} \/ pc.main \notin Uploading \cup {"ask"},
         \/ replies' = replies \/ replies' = <<>> \/ (replies # <<>> /\ replies' = Tail(replies)),
         \/ requests' = requests
         \/ /\ link # "none" /\ (txn.by = "main" => pc.main # "finish")
            /\ \E f \in Flows : pc[f] \in Asking /\ OnTheLink(Asks[pc[f]])
  PROVE  Carries
<1>1. UNCHANGED <<image, boot, running, version, origin, updates>>
  BY DEF deviceVars, flashVars, imageVars
<1>2. \A i \in 1..Len(replies') : \E j \in 1..Len(replies) : replies'[i] = replies[j]
  <2>1. CASE replies # <<>> /\ replies' = Tail(replies)
    <3>1. replies \in Seq(Replies)
      BY DEF ConsoleInv, WireInv, DeviceTypes
    <3>2. \A i \in 1..Len(replies') : i + 1 \in 1..Len(replies) /\ replies'[i] = replies[i + 1]
      BY <2>1, <3>1, Tailed
    <3> QED
      BY <3>2
  <2> QED
    BY <2>1
<1>3. OnTheWay' => \/ OnTheWay
                   \/ pc.main \in {"begin", "data", "revert"}
                   \/ pc.main = "finish" /\ txn.by # "main" /\ link # "none"
  BY SwitchIsMain DEF OnTheWay, SwitchSteps
<1> QED
  BY <1>1, <1>2, <1>3 DEF Carries

\* However an await ends, what is known of the update stays known.
LEMMA EndUpload ==
  ASSUME ConsoleInv, WordInv, MatchInv, UploadInv, UNCHANGED <<deviceVars, updates>>, NEW f \in Flows,
         NEW how, NEW data, Closed(f, how, data), Resumes(f, how, data)
  PROVE  UploadInv'
<1>1. CASE f = "main" /\ how = "ok" /\ PlanMade(data)
  BY <1>1, PlanUpload
<1>2. CASE ~(f = "main" /\ how = "ok" /\ PlanMade(data))
  <2>1. Carries
    BY ClosedIs, PageCarries DEF Closed
  <2> QED
    BY <1>2, <2>1, EndConcludes, PageUpload
<1> QED
  BY <1>1, <1>2

\* Nothing is said.
LEMMA SilentConcludes ==
  ASSUME UploadInv, UNCHANGED <<phase, job, said>>
  PROVE  Concludes
BY DEF Concludes, UploadInv, Excluded

\* What the page does without waiting: the next request, or the loss of the link.
LEMMA RunsUpload ==
  ASSUME ConsoleInv, WordInv, MatchInv, UploadInv, NEW f \in Flows, Sends(f) \/ Lost(f)
  PROVE  UploadInv'
<1>1. CASE Sends(f)
  <2>1. /\ UNCHANGED deviceVars /\ UNCHANGED <<updates, link, replies, pc, phase, job, said>>
        /\ link # "none" /\ txn.by # "main" /\ waiting # <<>> /\ Head(waiting) = f
        /\ OnTheLink(Asks[pc[f]])
    BY <1>1 DEF Sends, Here, NoTxn, updVars, historyVars
  <2>2. pc[f] \in Asking
    <3>1. 1 \in 1..Len(waiting) /\ waiting[1] = f
      BY <2>1, Tailed DEF ConsoleInv, PageInv, PageTypes
    <3> QED
      BY <3>1 DEF ConsoleInv, PageInv, Queued
  <2>3. Carries
    BY <2>1, <2>2, PageCarries
  <2>4. Advances /\ Concludes
    BY <2>1, SilentConcludes DEF Advances
  <2> QED
    BY <2>3, <2>4, PageUpload
<1>2. CASE Lost(f)
  <2>1. updates' = updates
    BY <1>2 DEF Lost, historyVars
  <2> QED
    BY <1>2, <2>1, LostCloses, EndUpload
<1> QED
  BY <1>1, <1>2

\* A reply, or the lack of one.
LEMMA RepliesUpload ==
  ASSUME ConsoleInv, WordInv, MatchInv, UploadInv, MaxInFlight <= 1, Receives \/ TimesOut \/ Unsolicited
  PROVE  UploadInv'
<1>1. /\ UNCHANGED deviceVars /\ link' = link /\ link # "none" /\ updates' = updates
      /\ replies' = replies \/ (replies # <<>> /\ replies' = Tail(replies))
  BY DEF Receives, TimesOut, Unsolicited, Here, historyVars
<1>2. CASE Unsolicited
  <2>1. UNCHANGED <<requests, txn, pc, phase, job, said>>
    BY <1>2 DEF Unsolicited, updVars
  <2>2. Carries
    BY <1>1, <2>1, PageCarries
  <2> QED
    BY <2>1, <2>2, SilentConcludes, PageUpload DEF Advances
<1>3. CASE Retried /\ ~Unsolicited
  <2>1. /\ UNCHANGED <<pc, phase, job, said>> /\ txn # NoTxn /\ txn.left > 0
        /\ OnTheLink(Asks[pc[txn.by]]) /\ txn' = [txn EXCEPT !.left = 0]
        /\ txn \in [by : Flows \cup {"none"}, left : 0..1]
    BY <1>3 DEF Retried, updVars, ConsoleInv, PageInv, PageTypes
  <2>2. txn'.by = txn.by /\ txn.by \in Flows /\ pc[txn.by] \in Asking
    BY <2>1 DEF ConsoleInv, PageInv, Queued, NoTxn
  <2>3. txn.by = "main" => pc.main # "finish"
    BY <2>1 DEF MatchInv, Once
  <2>4. Carries
    BY <1>1, <2>1, <2>2, <2>3, PageCarries
  <2> QED
    BY <2>1, <2>2, <2>4, SilentConcludes, PageUpload DEF Advances
<1>4. CASE ~Retried /\ ~Unsolicited
  BY <1>1, <1>4, AwaitCloses, EndUpload
<1> QED
  BY <1>2, <1>3, <1>4

\* No timer of the page excludes an update.
LEMMA TimersUpload ==
  ASSUME ConsoleInv, WordInv, MatchInv, UploadInv,
         DropSeen \/ DropWaitOver \/ Wakes \/ DiscoveryOver \/ GivesUp \/ TransportGone
  PROVE  UploadInv'
<1>1. /\ UNCHANGED deviceVars /\ UNCHANGED <<updates, requests, job>> /\ pc \in [Flows -> Steps]
      /\ replies' = replies \/ replies' = <<>>
      /\ link' = link \/ link' = "none"
  BY DEF DropSeen, DropWaitOver, Wakes, DiscoveryOver, GivesUp, TransportGone, linkVars, updVars,
         historyVars, ConsoleInv, PageInv, PageTypes
<1>2. Carries
  BY <1>1, PageCarries
<1>3. CASE DropSeen \/ DropWaitOver
  <2>1. UNCHANGED <<phase, said>> /\ pc'.main \in {"idle", "reread"}
    BY <1>1, <1>3 DEF DropSeen, DropWaitOver, updVars, Goes, Flows
  <2> QED
    BY <1>1, <1>2, <2>1, SilentConcludes, PageUpload DEF Advances, Uploading
<1>4. CASE Wakes
  <2>1. /\ pc'.main = pc.main /\ txn' = txn
        /\ \/ phase' = phase /\ said' = said
           \/ phase' = "done" /\ said' = "no_device"
    BY <1>1, <1>4 DEF Wakes, Goes, Ends, Flows
  <2>2. phase \in {"rebooting", "switched_no_restart"}
    BY <1>4 DEF Wakes, ConsoleInv, PageInv, ReportPhase
  <2>3. Concludes
    BY <1>1, <2>1, <2>2 DEF Concludes, Exclusions, UploadInv, Excluded
  <2> QED
    BY <1>2, <2>1, <2>3, PageUpload DEF Advances
<1>5. CASE DiscoveryOver
  <2>1. UNCHANGED <<phase, said, txn>> /\ pc'.main = pc.main
    BY <1>1, <1>5 DEF DiscoveryOver, updVars, Goes, Flows
  <2> QED
    BY <1>1, <1>2, <2>1, SilentConcludes, PageUpload DEF Advances
<1>6. CASE GivesUp
  <2>1. UNCHANGED <<phase, txn, pc>> /\ said' \in {said, "gave_up"}
    BY <1>6 DEF GivesUp
  <2>2. Concludes
    BY <1>1, <2>1 DEF Concludes, Exclusions, UploadInv, Excluded
  <2> QED
    BY <1>2, <2>1, <2>2, PageUpload DEF Advances
<1>7. CASE TransportGone
  <2>1. /\ link' = "none" /\ pc'.main \in {pc.main, "idle"}
        /\ \/ phase' = phase /\ said' = said
           \/ phase # "none" /\ phase' = "rebooting" /\ said' = "nothing"
    BY <1>1, <1>7 DEF TransportGone, Flows
  <2>2. Concludes
    BY <1>1, <2>1 DEF Concludes, Exclusions, UploadInv, Excluded
  <2> QED
    BY <1>2, <2>1, <2>2, PageUpload DEF Advances, Uploading
<1> QED
  BY <1>3, <1>4, <1>5, <1>6, <1>7

\* A page that connects finds nothing on the new link.
LEMMA ConnectsUpload ==
  ASSUME ConsoleInv, WordInv, MatchInv, UploadInv, ~MustRun, Connects
  PROVE  UploadInv'
<1>1. /\ link = "none" /\ pc' = [pc EXCEPT !.conn = "discover"] /\ UNCHANGED deviceVars
      /\ UNCHANGED <<updates, requests, replies, txn, phase, job, said>>
      /\ pc \in [Flows -> Steps] /\ pc.main # "ask"
  BY AskingIs DEF Connects, Goes, updVars, historyVars, ConsoleInv, PageInv, PageTypes, Linked
<1>2. pc'.main = pc.main /\ pc.main \notin Uploading \cup {"ask"}
  BY <1>1, AskingIs DEF MustRun, Here, Flows, Uploading
<1>3. Carries
  BY <1>1, <1>2, PageCarries
<1> QED
  BY <1>1, <1>2, <1>3, SilentConcludes, PageUpload DEF Advances

\* A new update: nothing is of it yet.
LEMMA StartUpload ==
  ASSUME ConsoleInv, UploadInv, NEW kind, StartsUpdate(kind)
  PROVE  UploadInv'
<1>1. /\ updates' = updates + 1 /\ phase' = "none" /\ said' = "nothing" /\ pc'.main = "plan"
      /\ UNCHANGED <<image, boot, running, version, origin, replies>>
  BY DEF StartsUpdate, Goes, linkVars, deviceVars, flashVars, imageVars, ConsoleInv, PageInv, PageTypes,
         Flows
<1>2. updates \in Nat /\ \A s \in Slots : origin[s] \in Nat /\ origin[s] <= updates
  BY LimitsAssumption DEF ConsoleInv, WireInv, DeviceTypes, UploadInv, Begun
<1>3. updates' > 0 /\ \A s \in Slots : origin'[s] <= updates' /\ origin'[s] # updates'
  BY <1>1, <1>2
<1>4. Begun' /\ FlashPlain' /\ PlannedFrom' /\ Uploaded'
  BY <1>1, <1>3 DEF Begun, FlashPlain, Planned, PlannedFrom, Uploaded, BeginOver, Uploading
<1>5. InfoTrue'
  BY <1>1 DEF UploadInv, InfoTrue, IsInfo
<1>6. FreshIs' /\ Excluded'
  BY <1>1, <1>3 DEF FreshIs, Fresh, Excluded, Exclusions
<1> QED
  BY <1>4, <1>5, <1>6 DEF UploadInv

\* A person who begins an update has the page forget what it said of the last one.
LEMMA PersonUpload ==
  ASSUME ConsoleInv, WordInv, MatchInv, UploadInv, ~MustRun, Person
  PROVE  UploadInv'
<1>1. CASE PersonConnects
  BY <1>1, ConnectsUpload DEF PersonConnects
<1>2. CASE \E kind \in {"flash", "revert"} : StartsUpdate(kind)
  BY <1>2, StartUpload
<1>3. CASE Agrees \/ Declines \/ RestartNow \/ PressMarkValid
  <2>1. /\ UNCHANGED deviceVars /\ UNCHANGED <<updates, link, requests, replies, txn, job>>
        /\ pc \in [Flows -> Steps]
    BY <1>3 DEF Agrees, Declines, RestartNow, PressMarkValid, linkVars, updVars, historyVars,
                ConsoleInv, PageInv, PageTypes
  <2>2. Carries
    BY <2>1, PageCarries
  <2>3. Advances
    BY <1>3, <2>1 DEF Agrees, Declines, RestartNow, PressMarkValid, Goes, Flows, Advances, Uploading
  <2>4. CASE Agrees
    <3>1. phase = "none" /\ phase' = "running" /\ said' = said /\ pc.main = "ask"
      BY <2>4 DEF Agrees, ConsoleInv, PageInv, MainPhase
    <3>2. said \notin Exclusions
      BY <3>1 DEF UploadInv, Excluded
    <3>3. Concludes
      BY <2>1, <3>1, <3>2 DEF Concludes
    <3> QED
      BY <2>2, <2>3, <3>3, PageUpload
  <2>5. CASE Declines \/ PressMarkValid
    <3>1. UNCHANGED <<phase, said>>
      BY <2>5 DEF Declines, PressMarkValid, updVars
    <3> QED
      BY <2>1, <2>2, <2>3, <3>1, SilentConcludes, PageUpload
  <2>6. CASE RestartNow
    <3>1. phase = "switched_no_restart" /\ phase' = "rebooting" /\ said' = "nothing"
      BY <2>6 DEF RestartNow
    <3>2. Concludes
      BY <2>1, <3>1 DEF Concludes, Exclusions
    <3> QED
      BY <2>2, <2>3, <3>2, PageUpload
  <2> QED
    BY <1>3, <2>4, <2>5, <2>6
<1> QED
  BY <1>1, <1>2, <1>3 DEF Person

-----------------------------------------------------------------------------
\* A complete image of the last update is new only by OTA_FINISH; OTA_BEGIN gives the
\* slot that does not run to the file.
Finishes ==
  /\ requests # <<>> /\ Head(requests) = "OTA_FINISH" /\ requests' = Tail(requests)
  /\ link' = link /\ up /\ UNCHANGED <<running, version>>
  /\ replies' \in {replies, Append(replies, Plain("OK"))}
  /\ \A s \in Slots : Fresh(s)' => Fresh(s) \/ s = Other(running)
FreshMoves ==
  /\ UNCHANGED <<updates, txn, pc, phase, job, said>>
  /\ \A s \in Slots : origin'[s] \in {origin[s], updates}
  /\ \/ version' = version
     \/ /\ OnTheWay /\ running' = running /\ version'[running] = version[running]
        /\ version'[Other(running)] = job.version
  /\ replies' = replies \/ \E reply \in Replies : Handles(reply)
  /\ (\A s \in Slots : Fresh(s)' => Fresh(s)) \/ Finishes

\* What the device answers does to the image of an update.
LEMMA ServesFresh ==
  ASSUME ConsoleInv, Serves
  PROVE  FreshMoves
<1> PICK sent \in BOOLEAN :
      \/ AnswerFwInfo(sent)
      \/ AnswerState(sent)
      \/ \E sensor \in Sensor : AnswerDiagnostics(sent, sensor)
      \/ Refuse(sent)
      \/ AnswerBegin(sent)
      \/ AnswerData(sent)
      \/ AnswerFinish(sent)
      \/ AnswerRevert(sent)
      \/ AnswerAbort(sent)
      \/ AnswerRestart(sent)
      \/ AnswerMarkValid(sent)
  BY DEF Serves
<1>1. /\ running \in Slots /\ Other(running) \in Slots /\ Other(running) # running
      /\ \A s \in Slots : s = running \/ s = Other(running)
      /\ image \in [Slots -> Images] /\ version \in [Slots -> Versions]
      /\ origin \in [Slots -> 0..MaxUpdates]
      /\ requests \in Seq(Requests)
  BY OtherSlot DEF ConsoleInv, WireInv, DeviceTypes, FlashTypeOK, Slots
<1>2. /\ UNCHANGED <<txn, pc, phase, job, said, updates>>
      /\ \E reply \in Replies : Handles(reply)
  BY ServesHandles
<1>3. CASE AnswerBegin(sent)
  <2>1. /\ requests # <<>> /\ Head(requests) = "OTA_BEGIN" /\ running' = running
        /\ image' = [image EXCEPT ![Other(running)] = "none"]
        /\ version' = [version EXCEPT ![Other(running)] = job.version]
        /\ origin' = [origin EXCEPT ![Other(running)] = updates]
    BY <1>3 DEF AnswerBegin, Answer, EraseOther
  <2>2. OnTheWay
    <3>1. 1 \in 1..Len(requests) /\ requests[1] = "OTA_BEGIN"
      BY <1>1, <2>1, Tailed
    <3> QED
      BY <3>1 DEF OnTheWay, Switching
  <2>3. \A s \in Slots : Fresh(s)' => Fresh(s)
    BY <1>1, <1>2, <2>1 DEF Fresh
  <2> QED
    BY <1>1, <1>2, <2>1, <2>2, <2>3 DEF FreshMoves
<1>4. CASE AnswerData(sent)
  <2>1. image' = [image EXCEPT ![Other(running)] = "partial"] /\ UNCHANGED <<version, origin>>
    BY <1>4 DEF AnswerData, WriteDescriptor, imageVars
  <2>2. \A s \in Slots : Fresh(s)' => Fresh(s)
    BY <1>1, <1>2, <2>1 DEF Fresh
  <2> QED
    BY <1>2, <2>1, <2>2 DEF FreshMoves
<1>5. CASE AnswerFinish(sent)
  <2>1. /\ image' = [image EXCEPT ![Other(running)] = "full"] /\ UNCHANGED <<version, origin, running>>
        /\ requests # <<>> /\ Head(requests) = "OTA_FINISH" /\ requests' = Tail(requests)
        /\ link' = link /\ up /\ replies' \in {replies, Append(replies, Plain("OK"))}
    BY <1>5 DEF AnswerFinish, Answer, CommitImage, imageVars
  <2>2. Finishes
    BY <1>1, <1>2, <2>1 DEF Finishes, Fresh
  <2> QED
    BY <1>2, <2>1, <2>2 DEF FreshMoves
<1>6. ASSUME UNCHANGED <<image, version, origin>> PROVE FreshMoves
  BY <1>2, <1>6 DEF FreshMoves, Fresh
<1>7. CASE AnswerFwInfo(sent) \/ AnswerState(sent) \/ Refuse(sent) \/ AnswerAbort(sent) \/ AnswerRestart(sent)
  BY <1>6, <1>7 DEF AnswerFwInfo, AnswerState, Refuse, AnswerAbort, AnswerRestart, flashVars, imageVars
<1>8. ASSUME NEW sensor \in Sensor, AnswerDiagnostics(sent, sensor) PROVE FreshMoves
  BY <1>6, <1>8 DEF AnswerDiagnostics, flashVars, imageVars
<1>9. CASE AnswerRevert(sent)
  BY <1>6, <1>9 DEF AnswerRevert, SetBoot, imageVars
<1>10. CASE AnswerMarkValid(sent)
  BY <1>6, <1>10 DEF AnswerMarkValid, MarkRunningValid, imageVars
<1> QED
  BY <1>3, <1>4, <1>5, <1>7, <1>8, <1>9, <1>10

\* A restart, a rollback or the end of the link changes no image.
LEMMA DeviceFresh ==
  ASSUME ConsoleInv, Device \/ Crashes \/ LinkDrops
  PROVE  FreshMoves
<1>1. CASE ~Serves
  <2>1. UNCHANGED <<image, version, origin, replies, updates, txn, pc, phase, job, said>>
    BY <1>1 DEF Device, Restarts, RollsBack, Crashes, Stop, Boots, LinkDrops, Bootloader, MarkRunningInvalid,
                consoleVars, linkVars, updVars, imageVars, flashVars, deviceVars
  <2> QED
    BY <2>1 DEF FreshMoves, Fresh
<1> QED
  BY <1>1, ServesFresh

\* A device that is set to start the image that stays goes on to be, until a request
\* of an update says otherwise.
LEMMA StaysBack ==
  ASSUME FlashTypeOK, FlashMoves, ~OnTheWay, NEW o \in Slots, NEW v, OldKept(o, v), boot = o
  PROVE  boot' = o
<1>1. up => running = o
  BY DEF OldKept
<1>2. CASE UNCHANGED <<image, state, boot, running, version>>
  BY <1>2
<1>3. CASE up /\ MarkRunningValid
  BY <1>3 DEF MarkRunningValid
<1>4. CASE up /\ PendingVerify
  BY <1>1, <1>4 DEF PendingVerify, OldKept
<1>5. CASE Bootloader
  BY <1>5 DEF Bootloader, OldKept
<1> QED
  BY <1>2, <1>3, <1>4, <1>5 DEF FlashMoves

\* What the device does keeps what is known of the update: what it uploads is the
\* file's, and a complete image of it stays what FW_INFO said it is.
LEMMA DeviceUpload ==
  ASSUME ConsoleInv, WordInv, MatchInv, UploadInv, LinkMoves, FlashMoves, FreshMoves
  PROVE  UploadInv'
<1>0. job \in Jobs /\ job.slot \in Slots
  BY DEF ConsoleInv, PageInv, PageTypes, Jobs
<1> PICK o \in Slots : o = Other(job.slot)
  BY <1>0, OtherSlot
<1>1. /\ FlashTypeOK /\ WireInv /\ running \in Slots /\ boot \in Slots /\ boot' \in Slots
      /\ job.slot \in Slots /\ o # job.slot /\ Other(o) = job.slot
      /\ \A s \in Slots : s = o \/ s = job.slot
      /\ requests \in Seq(Requests) /\ replies \in Seq(Replies)
      /\ requests # <<>> => link = "open"
  <2>1. FlashTypeOK /\ WireInv
    BY DEF ConsoleInv, WireInv, DeviceTypes
  <2>2. boot' \in Slots
    BY <2>1, OtherSlot DEF FlashTypeOK, FlashMoves, MarkRunningValid, MarkRunningInvalid, Bootloader
  <2> QED
    BY <1>0, <2>1, <2>2, OtherSlot DEF FlashTypeOK, Slots, WireInv, DeviceTypes
<1>2. /\ UNCHANGED <<updates, txn, pc, phase, job, said>>
      /\ OnTheWay' => OnTheWay
      /\ link' = "open" => link = "open" /\ running' = running
      /\ link' = "none" <=> link = "none"
      /\ \A s \in Slots : origin'[s] \in {origin[s], updates}
  BY DEF LinkMoves, FreshMoves
<1>3. OnTheWay => link = "open"
  BY <1>1 DEF OnTheWay
<1> DEFINE Old(k) == k \in 1..Len(replies) /\ IsInfo(k) /\ replies'[k] = replies[k]
           New(k) == /\ link = "open" /\ up /\ replies'[k].data = FwInfo
                     /\ UNCHANGED <<image, state, boot, running, version, up>>
<1>4. \A k \in 1..Len(replies') : IsInfo(k)' => Old(k) \/ New(k)
  BY <1>1, InfoSent
<1>5. \A k \in 1..Len(replies') : New(k) =>
        /\ replies'[k].data.running = running /\ replies'[k].data.boot = boot
        /\ replies'[k].data.version = version[running]
  BY DEF FwInfo
<1>6. Begun'
  <2>1. updates \in Nat
    BY LimitsAssumption DEF ConsoleInv, WireInv, DeviceTypes
  <2> QED
    BY <1>2, <2>1 DEF UploadInv, Begun
<1>7. FlashPlain'
  BY <1>2 DEF UploadInv, FlashPlain, Planned
<1>8. PlannedFrom'
  <2> SUFFICES ASSUME pc.main \in Uploading \cup {"ask"} PROVE PlannedFrom'
    BY <1>2 DEF PlannedFrom
  <2>1. /\ link = "open" => running = o
        /\ \A i \in 1..Len(replies) : IsInfo(i) => replies[i].data.running = o
    BY DEF UploadInv, PlannedFrom
  <2> QED
    BY <1>2, <1>4, <1>5, <2>1 DEF PlannedFrom
<1>9. InfoTrue'
  <2> SUFFICES ASSUME NEW i \in 1..Len(replies'), IsInfo(i)'
               PROVE  replies'[i].data.version = version'[replies'[i].data.running]
    BY DEF InfoTrue
  <2>1. CASE New(i)
    BY <1>5, <2>1
  <2>2. CASE Old(i)
    <3>1. replies[i].data.version = version[replies[i].data.running]
      BY <2>2 DEF UploadInv, InfoTrue
    <3>2. CASE version' = version
      BY <2>2, <3>1, <3>2
    <3>3. CASE version' # version
      <4>1. OnTheWay /\ version'[running] = version[running]
        BY <3>3 DEF FreshMoves
      <4>2. replies[i].data.running = running
        BY <1>3, <2>2, <4>1 DEF WordInv, Told
      <4> QED
        BY <2>2, <3>1, <4>1, <4>2
    <3> QED
      BY <3>2, <3>3
  <2> QED
    BY <1>4, <2>1, <2>2
<1>10. Uploaded'
  <2> SUFFICES ASSUME BeginOver' PROVE version'[job.slot] = job.version
    BY <1>2 DEF Uploaded
  <2>1. CASE BeginOver
    <3>1. version[job.slot] = job.version
      BY <2>1 DEF UploadInv, Uploaded
    <3>2. job.slot = running \/ job.slot = Other(running)
      BY <1>1
    <3> QED
      BY <3>1, <3>2 DEF FreshMoves
  <2>2. CASE ~BeginOver
    <3>1. pc.main = "begin" /\ ~Accepted /\ Accepted'
      BY <1>2, <2>2 DEF BeginOver
    <3>2. replies' # replies
      BY <3>1 DEF Accepted
    <3>3. PICK reply \in Replies : Handles(reply)
      BY <3>2 DEF FreshMoves
    <3>4. reply.type = "OK"
      BY <3>1, <3>3, HandledIs DEF Accepted
    <3>5. 1 \in 1..Len(requests) /\ Head(requests) = requests[1] /\ link = "open" /\ link' = "open"
      BY <1>1, <3>3, HandledIs DEF Handles
    <3>6. Head(requests) = "OTA_BEGIN"
      BY <3>1, <3>3, <3>4, <3>5 DEF Handles, MatchInv, OwnLast, Asks
    <3>7. version[Other(running)]' = job.version
      BY <3>3, <3>4, <3>6 DEF Handles
    <3>8. running' = o
      BY <1>2, <3>1, <3>5 DEF UploadInv, PlannedFrom, Uploading
    <3> QED
      BY <1>1, <3>7, <3>8 DEF Other
  <2> QED
    BY <2>1, <2>2
<1>11. ASSUME NEW s \in Slots, Fresh(s) PROVE boot # s => boot' # s
  <2>1. s = job.slot /\ job.kind = "flash" /\ phase # "none" /\ ~OnTheWay
    BY <1>11 DEF UploadInv, FreshIs
  <2>2. ~job.trial /\ Planned
    BY <2>1 DEF UploadInv, FlashPlain, Planned
  <2>3. OldKept(o, job.before)
    BY <2>2 DEF WordInv, Remembered
  <2>4. boot = o => boot' = o
    BY <1>1, <2>1, <2>3, StaysBack
  <2> QED
    BY <1>1, <2>1, <2>4
<1>12. ASSUME NEW s \in Slots, Fresh(s)', ~Fresh(s) PROVE Finishes /\ s = Other(running)
  BY <1>12 DEF FreshMoves, Finishes
\* What OTA_FINISH leaves, the one main has sent.
<1>13. ASSUME NEW s \in Slots, Finishes, s = Other(running)
       PROVE  /\ s = job.slot /\ job.kind = "flash" /\ version'[s] = job.version
              /\ phase = "running" /\ ~OnTheWay' /\ pc.main \in {"finish", "probe"}
              /\ pc.main = "finish" =>
                   /\ txn.by = "main"
                   /\ \A i \in 1..Len(replies') : replies'[i].type # "ERROR"
              /\ \A i \in 1..Len(replies') : ~IsInfo(i)'
  <2>1. /\ requests # <<>> /\ requests[1] = "OTA_FINISH" /\ 1 \in 1..Len(requests)
        /\ Len(requests) \in Nat \ {0} /\ Len(requests') = Len(requests) - 1
        /\ \A i \in 1..Len(requests') : requests'[i] = requests[i + 1] /\ i + 1 \in 1..Len(requests)
        /\ version' = version
    BY <1>1, <1>13, Tailed DEF Finishes
  <2>2. pc.main \in {"finish", "probe"} /\ job.kind = "flash"
    BY <2>1 DEF MatchInv, Kinds
  <2>3. running = o
    BY <1>1, <2>1, <2>2 DEF UploadInv, PlannedFrom, Uploading
  <2>4. s = job.slot /\ version'[s] = job.version
    BY <1>1, <1>13, <2>1, <2>2, <2>3 DEF UploadInv, Uploaded, BeginOver
  <2>5. phase = "running"
    BY <2>2 DEF ConsoleInv, PageInv, MainPhase, Uploading
  <2>6. CASE pc.main = "finish"
    <3>1. Len(requests) = 1 /\ txn.by = "main" /\ replies = <<>>
      <4>1. \A i \in 1..Len(requests) : requests[i] # "GET_FW_INFO" => i = Len(requests) /\ txn.by = "main"
        BY <2>6 DEF MatchInv, OwnLast
      <4>2. \A i \in 1..Len(replies) : FALSE
        BY <2>1, <2>6 DEF MatchInv, OwnLast, NoInfos
      <4> QED
        BY <1>1, <2>1, <4>1, <4>2
    <3>2. ~OnTheWay'
      BY <2>1, <3>1 DEF OnTheWay
    <3>3. \A i \in 1..Len(replies') : replies'[i].type = "OK"
      BY <1>13, <3>1 DEF Finishes, Plain
    <3> QED
      BY <2>2, <2>4, <2>5, <3>1, <3>2, <3>3 DEF IsInfo
  <2>7. CASE pc.main = "probe"
    <3>1. \A i \in 1..Len(requests) :
            /\ requests[i] \in {"GET_FW_INFO", "OTA_FINISH"}
            /\ requests[i] = "OTA_FINISH" => i = 1
      BY <2>2, <2>7 DEF MatchInv, FinishFirst
    <3>2. ~OnTheWay'
      BY <2>1, <3>1 DEF OnTheWay, Switching
    <3>3. \A i \in 1..Len(replies) : replies[i].type # "FW_INFO"
      BY <2>1, <2>2, <2>7 DEF MatchInv, FinishFirst, IsInfo
    <3>4. Plain("OK") \in Replies /\ Plain("OK").type = "OK"
      BY DEF Plain, Replies
    <3>5. \A i \in 1..Len(Append(replies, Plain("OK"))) :
            \/ i \in 1..Len(replies) /\ Append(replies, Plain("OK"))[i] = replies[i]
            \/ Append(replies, Plain("OK"))[i] = Plain("OK")
      BY <1>1, <3>4, Appended
    <3>6. \A i \in 1..Len(replies') : ~IsInfo(i)'
      BY <1>13, <3>3, <3>4, <3>5 DEF Finishes, IsInfo
    <3> QED
      BY <2>2, <2>4, <2>5, <2>7, <3>2, <3>6
  <2> QED
    BY <2>2, <2>6, <2>7
<1>14. FreshIs'
  <2> SUFFICES ASSUME NEW s \in Slots, Fresh(s)'
               PROVE  /\ s = job'.slot /\ job'.kind = "flash" /\ version'[s] = job'.version
                      /\ phase' # "none" /\ ~OnTheWay'
                      /\ pc'.main \notin {"plan", "ask", "begin", "data", "revert"}
                      /\ pc'.main = "finish" =>
                           /\ txn'.by = "main" \/ link' = "none"
                           /\ \A i \in 1..Len(replies') : replies'[i].type # "ERROR"
                      /\ \A i \in 1..Len(replies') :
                           IsInfo(i)' /\ replies'[i].data.running # s /\ replies'[i].data.boot # s
                             => boot' # s
    BY DEF FreshIs
  <2>1. CASE ~Fresh(s)
    BY <1>2, <1>12, <1>13, <2>1
  <2>2. CASE Fresh(s)
    <3>1. /\ s = job.slot /\ job.kind = "flash" /\ version[s] = job.version
          /\ phase # "none" /\ ~OnTheWay
          /\ pc.main \notin {"plan", "ask", "begin", "data", "revert"}
          /\ pc.main = "finish" =>
               /\ txn.by = "main" \/ link = "none"
               /\ \A i \in 1..Len(replies) : replies[i].type # "ERROR"
          /\ \A i \in 1..Len(replies) :
               IsInfo(i) /\ replies[i].data.running # s /\ replies[i].data.boot # s => boot # s
      BY <2>2 DEF UploadInv, FreshIs
    <3>2. version' = version /\ ~OnTheWay'
      BY <1>2, <3>1 DEF FreshMoves
    <3>3. ASSUME pc.main = "finish" PROVE replies' = replies
      <4>1. ASSUME NEW reply \in Replies, Handles(reply) PROVE FALSE
        <5>1. 1 \in 1..Len(requests)
          BY <4>1, HandledIs
        <5>2. requests[1] = "OTA_FINISH"
          BY <3>3, <5>1 DEF MatchInv, OwnLast, NoInfos, Asks
        <5> QED
          BY <3>1, <5>1, <5>2 DEF OnTheWay, Switching
      <4> QED
        BY <4>1 DEF FreshMoves
    <3>4. ASSUME NEW i \in 1..Len(replies'), IsInfo(i)', replies'[i].data.running # s,
                 replies'[i].data.boot # s
          PROVE  boot' # s
      <4>1. boot # s
        BY <1>4, <1>5, <3>1, <3>4
      <4> QED
        BY <1>11, <2>2, <4>1
    <3> QED
      BY <1>2, <3>1, <3>2, <3>3, <3>4
  <2> QED
    BY <2>1, <2>2
<1>15. Excluded'
  <2>1. ASSUME NotBooted, phase = "done" \/ pc.main = "release" PROVE NotBooted'
    <3> SUFFICES ASSUME NEW s \in Slots, Fresh(s)' PROVE boot' # s
      BY DEF NotBooted
    <3>1. Fresh(s)
      BY <1>12, <1>13, <2>1
    <3> QED
      BY <1>11, <2>1, <3>1 DEF NotBooted
  <2> QED
    BY <1>2, <2>1 DEF UploadInv, Excluded
<1> QED
  BY <1>6, <1>7, <1>8, <1>9, <1>10, <1>14, <1>15 DEF UploadInv

\* No step disturbs what is known of the update's image.
LEMMA UploadInvNext ==
  ASSUME ConsoleInv, ConsoleInv', WordInv, MatchInv, UploadInv, MaxInFlight <= 1, [Next]_vars
  PROVE  UploadInv'
<1>1. CASE Runs
  BY <1>1, RunsUpload DEF Runs
<1>2. CASE Device \/ Crashes \/ LinkDrops
  BY <1>2, DeviceMoves, DeviceFresh, DeviceUpload DEF WordInv
<1>3. CASE ~MustRun /\ Console
  BY <1>3, RepliesUpload, TimersUpload, ConnectsUpload DEF Console, AutoConnects
<1>4. CASE ~MustRun /\ Person
  BY <1>4, PersonUpload
<1>5. CASE UNCHANGED vars
  <2>1. /\ UNCHANGED <<image, boot, running, version, origin, updates, requests, replies, link>>
        /\ UNCHANGED <<pc, txn, phase, said, job>>
    BY <1>5 DEF vars, deviceVars, flashVars, imageVars, linkVars, updVars, historyVars
  <2>2. Carries /\ Advances /\ Concludes
    <3>1. UNCHANGED OnTheWay
      BY <2>1 DEF OnTheWay
    <3>2. said' \in Exclusions => phase = "done"
      BY <2>1 DEF UploadInv, Excluded
    <3> QED
      BY <2>1, <3>1, <3>2 DEF Carries, Advances, Concludes
  <2> QED
    BY <2>2, PageUpload
<1> QED
  BY <1>1, <1>2, <1>3, <1>4, <1>5 DEF Next

\* It holds before the first update.
LEMMA UploadInvInit == Init => UploadInv
<1> SUFFICES ASSUME Init PROVE UploadInv
  OBVIOUS
<1>1. /\ updates = 0 /\ origin = [s \in Slots |-> 0] /\ replies = <<>>
      /\ phase = "none" /\ said = "nothing" /\ pc = [f \in Flows |-> "idle"]
  BY DEF Init
<1>2. pc.main = "idle"
  BY <1>1 DEF Flows
<1>3. \A s \in Slots : ~Fresh(s)
  BY <1>1 DEF Fresh
<1>4. Begun /\ FlashPlain
  BY <1>1, <1>2 DEF Begun, FlashPlain, Planned
<1>5. PlannedFrom /\ InfoTrue /\ Uploaded
  BY <1>1, <1>2 DEF PlannedFrom, InfoTrue, Uploaded, BeginOver, Uploading
<1>6. FreshIs /\ Excluded
  BY <1>1, <1>2, <1>3 DEF FreshIs, Excluded, Exclusions
<1> QED
  BY <1>4, <1>5, <1>6 DEF UploadInv

\* When the page says that a flash was not installed (decideAfterFinishTimeout(),
\* failUpdate()) or was rolled back (decideOutcome()), the device is not set to start the
\* image of that flash, and stays so while the page says it: whatever is lost, and with
\* one late message on the link, which may answer the request after its own.  With
\* enough of them OTA_FINISH is answered by what is about something else, and it is not
\* so; that is why the bound is a hypothesis here.
THEOREM NotInstalledIsTrueCorrect ==
  ASSUME MaxInFlight <= 1
  PROVE  Spec => []NotInstalledIsTrue
<1>1. ConsoleInv => FlashTypeOK
  BY DEF ConsoleInv, WireInv, DeviceTypes
<1>2. Init => BootInv /\ WordInv /\ MatchInv /\ UploadInv
  BY BootInvInit, WordInvInit, MatchInvInit, UploadInvInit
<1>3. ConsoleInv /\ BootInv /\ [Next]_vars => BootInv'
  BY <1>1, BootInvNext
<1>4. ConsoleInv /\ ConsoleInv' /\ BootInv /\ WordInv /\ [Next]_vars => WordInv'
  BY WordInvNext
<1>5. ConsoleInv /\ MatchInv /\ [Next]_vars => MatchInv'
  BY MatchInvNext
<1>6. ConsoleInv /\ ConsoleInv' /\ WordInv /\ MatchInv /\ UploadInv /\ [Next]_vars => UploadInv'
  BY UploadInvNext
<1>7. ConsoleInv /\ BootInv /\ UploadInv => NotInstalledIsTrue
  <2> SUFFICES ASSUME ConsoleInv, BootInv, UploadInv, said \in Exclusions PROVE origin[boot] # updates
    BY DEF NotInstalledIsTrue, Exclusions
  <2>1. boot \in Slots /\ image[boot] = "full"
    BY <1>1 DEF FlashTypeOK, BootInv
  <2>2. updates > 0 /\ ~Fresh(boot)
    BY <2>1 DEF UploadInv, Begun, Excluded, NotBooted
  <2> QED
    BY <2>1, <2>2 DEF Fresh
<1> QED
  BY <1>2, <1>3, <1>4, <1>5, <1>6, <1>7, ConsoleInvariant, PTL DEF Spec
=============================================================================
