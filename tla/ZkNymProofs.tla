------------------------------ MODULE ZkNymProofs ------------------------------
(***************************************************************************)
(* What holds of the requests for zk-nyms for any types, ids and fetches.  *)
(*                                                                         *)
(* The properties are about what several tasks do to one id; the invariant *)
(* says what a single task knows of its id at each step.  What it knows    *)
(* stays true whatever the others do: the API is not made to forget what it*)
(* was told, and what is stored stays stored.                              *)
(***************************************************************************)
EXTENDS ZkNymRequests, TLAPS

Keys == Ids \cup Types

(* The steps at which a task has an id.                                    *)
Named == {"insert", "get", "poll", "import", "confirm", "remove"}

(* Only a database that fails in silence lets a task go on to confirm what *)
(* it has not stored.                                                      *)
Reliable == "write" \notin Faults

Knows(f, k) ==
    /\ task[f][k].step = "send" => k \in Types
    /\ task[f][k].step \in Named => task[f][k].id \in Ids
    /\ task[f][k].step = "remove" => task[f][k].id \in confirmed
    /\ task[f][k].step = "done" /\ task[f][k].got # "error" => task[f][k].id \in confirmed
    /\ Reliable /\ task[f][k].step = "confirm" => task[f][k].id \in stored

NotBegun == {"idle"} \cup Before

Phased ==
    \A f \in Fetches :
        /\ run[f].phase \in NotBegun => Tasks(f) = {}
        /\ Tasks(f) \cap Types \subseteq run[f].types

(* What a fetch in the phase `phase` with the tasks t reports.             *)
Reports == {"FetchedTickets", "UpgradeMode"}

Tells(phase, t) ==
    phase \in Reports =>
        /\ \A k \in Keys : t[k].step # "none" => t[k].step = "done" /\ t[k].got # "error"
        /\ \E k \in Keys :
              /\ t[k].step = "done"
              /\ phase = "UpgradeMode" => t[k].got = "upgrade_mode"

Told == \A f \in Fetches : Tells(run[f].phase, task[f])

Inv ==
    /\ ZkNymTypeOK
    /\ Phased
    /\ \A f \in Fetches, k \in Keys : Knows(f, k)
    /\ Told
    /\ Reliable => ConfirmedIsImported

TaskRecord == [step : {"none", "done"} \cup Steps, id : Ids \cup {NoId}, got : Results]
RunRecord == [phase : {"idle", "resuming", "requesting"} \cup Before \cup Outcomes,
              types : SUBSET Types, ids : SUBSET Ids]

LEMMA NoTaskTyped == NoTask \in TaskRecord
BY DEF NoTask, TaskRecord, Steps, Results

LEMMA InitInv == Init => Inv
<1> SUFFICES ASSUME Init PROVE Inv
  OBVIOUS
<1>1. ZkNymTypeOK
  <2>1. server \in [Ids -> [status : Status, type : Types]]
    BY DEF Init, Status
  <2>2. task \in [Fetches -> [Keys -> TaskRecord]]
    BY NoTaskTyped DEF Init, Keys
  <2>3. run \in [Fetches -> RunRecord]
    BY DEF Init, NoRun, RunRecord
  <2> QED
    BY <2>1, <2>2, <2>3 DEF Init, ZkNymTypeOK, Keys, TaskRecord, RunRecord
<1>2. Phased
  BY DEF Init, Phased, Tasks, NoTask
<1>3. ASSUME NEW f \in Fetches, NEW k \in Keys PROVE Knows(f, k)
  BY DEF Init, Knows, NoTask, Named, Keys
<1>4. Told
  BY DEF Init, NoRun, Told, Tells, Reports
<1>5. ConfirmedIsImported
  BY DEF Init, ConfirmedIsImported
<1> QED
  BY <1>1, <1>2, <1>3, <1>4, <1>5 DEF Inv

-----------------------------------------------------------------------------
(* A step of one task.                                                     *)

(* What the tasks know of an id is not taken back.                         *)
Lasting == confirmed \subseteq confirmed' /\ stored \subseteq stored'

Becomes(f, k, r) ==
    /\ task' \in [Fetches -> [Keys -> TaskRecord]]
    /\ task'[f][k] = r
    /\ \A g \in Fetches, x \in Keys : <<g, x>> # <<f, k>> => task'[g][x] = task[g][x]

LEMMA BecomesBy ==
    ASSUME Inv, NEW f \in Fetches, NEW k \in Keys, NEW r \in TaskRecord,
           task' = [task EXCEPT ![f][k] = r]
    PROVE  Becomes(f, k, r)
<1>1. task \in [Fetches -> [Keys -> TaskRecord]]
  BY DEF Inv, ZkNymTypeOK, Keys, TaskRecord
<1> QED
  BY <1>1 DEF Becomes

LEMMA GoBecomes ==
    ASSUME Inv, NEW f \in Fetches, NEW k \in Keys, NEW step \in Steps, Go(f, k, step)
    PROVE  /\ [task[f][k] EXCEPT !.step = step] \in TaskRecord
           /\ Becomes(f, k, [task[f][k] EXCEPT !.step = step])
<1>1. task \in [Fetches -> [Keys -> TaskRecord]]
  BY DEF Inv, ZkNymTypeOK, Keys, TaskRecord
<1>2. [task[f][k] EXCEPT !.step = step] \in TaskRecord
  <2>1. task[f][k] \in TaskRecord
    BY <1>1
  <2> QED
    BY <2>1 DEF TaskRecord
<1>3. task' = [task EXCEPT ![f][k] = [task[f][k] EXCEPT !.step = step]]
  BY <1>1 DEF Go
<1> QED
  BY <1>2, <1>3, BecomesBy

LEMMA EndBecomes ==
    ASSUME Inv, NEW f \in Fetches, NEW k \in Keys, NEW result \in Results, End(f, k, result)
    PROVE  /\ [task[f][k] EXCEPT !.step = "done", !.got = result] \in TaskRecord
           /\ Becomes(f, k, [task[f][k] EXCEPT !.step = "done", !.got = result])
<1>1. task \in [Fetches -> [Keys -> TaskRecord]]
  BY DEF Inv, ZkNymTypeOK, Keys, TaskRecord
<1>2. [task[f][k] EXCEPT !.step = "done", !.got = result] \in TaskRecord
  <2>1. task[f][k] \in TaskRecord
    BY <1>1
  <2> QED
    BY <2>1 DEF TaskRecord
<1>3. task' = [task EXCEPT ![f][k] = [task[f][k] EXCEPT !.step = "done", !.got = result]]
  BY <1>1 DEF End
<1> QED
  BY <1>2, <1>3, BecomesBy

SetsTyped ==
    /\ low \subseteq Types
    /\ confirmed \subseteq Ids /\ stored \subseteq Ids
    /\ pending \subseteq Ids /\ stale \subseteq pending

LEMMA OneTaskMoves ==
    ASSUME Inv, NEW f \in Fetches, NEW k \in Keys, NEW r \in TaskRecord,
           task[f][k].step \in Steps, Becomes(f, k, r), run' = run, Lasting,
           SetsTyped',
           server' \in [Ids -> [status : Status, type : Types]],
           Knows(f, k)', Reliable => ConfirmedIsImported'
    PROVE  Inv'
<1>1. ZkNymTypeOK'
  <2>1. run' \in [Fetches -> RunRecord]
    BY DEF Inv, ZkNymTypeOK, RunRecord
  <2> QED
    BY <2>1 DEF Becomes, ZkNymTypeOK, SetsTyped, Keys, TaskRecord, RunRecord
<1>2. Phased'
  <2> SUFFICES ASSUME NEW g \in Fetches
               PROVE  /\ run'[g].phase \in NotBegun => Tasks(g)' = {}
                      /\ Tasks(g)' \cap Types \subseteq run'[g].types
    BY DEF Phased
  <2>1. Tasks(g)' \subseteq Tasks(g)
    BY DEF Becomes, Tasks, Keys, Steps
  <2> QED
    BY <2>1 DEF Inv, Phased
<1>3. ASSUME NEW g \in Fetches, NEW x \in Keys PROVE Knows(g, x)'
  <2>1. CASE <<g, x>> = <<f, k>>
    BY <2>1
  <2>2. CASE <<g, x>> # <<f, k>>
    <3>1. Knows(g, x)
      BY DEF Inv
    <3>2. task'[g][x] = task[g][x]
      BY <2>2 DEF Becomes
    <3> QED
      BY <3>1, <3>2 DEF Knows, Lasting, Named
  <2> QED
    BY <2>1, <2>2
<1>4. Told'
  <2> SUFFICES ASSUME NEW g \in Fetches PROVE Tells(run[g].phase, task'[g])
    BY DEF Told
  <2>1. Tells(run[g].phase, task[g])
    BY DEF Inv, Told
  <2>2. CASE g = f
    <3>1. run[f].phase \notin Reports
      BY <2>1, <2>2 DEF Tells, Steps
    <3> QED
      BY <2>2, <3>1 DEF Tells
  <2>3. CASE g # f
    <3>1. \A x \in Keys : task'[g][x] = task[g][x]
      BY <2>3 DEF Becomes
    <3> QED
      BY <2>1, <3>1 DEF Tells
  <2> QED
    BY <2>2, <2>3
<1> QED
  BY <1>1, <1>2, <1>3, <1>4 DEF Inv

(* What every step below uses of the invariant.                            *)
LEMMA InvTypes ==
    ASSUME Inv
    PROVE  /\ SetsTyped
           /\ server \in [Ids -> [status : Status, type : Types]]
           /\ run \in [Fetches -> RunRecord]
           /\ task \in [Fetches -> [Keys -> TaskRecord]]
           /\ Reliable => ConfirmedIsImported
BY DEF Inv, ZkNymTypeOK, SetsTyped, Keys, TaskRecord, RunRecord

(* A task that fails has nothing left to know.                             *)
LEMMA FailInv ==
    ASSUME Inv, NEW f \in Fetches, NEW k \in Keys,
           task[f][k].step \in Steps, End(f, k, "error"), run' = run, Lasting,
           SetsTyped', server' \in [Ids -> [status : Status, type : Types]],
           Reliable => ConfirmedIsImported'
    PROVE  Inv'
<1> DEFINE r == [task[f][k] EXCEPT !.step = "done", !.got = "error"]
<1>1. r \in TaskRecord /\ Becomes(f, k, r)
  BY EndBecomes DEF Results
<1>2. r.step = "done" /\ r.got = "error"
  BY InvTypes DEF TaskRecord
<1>3. Knows(f, k)'
  BY <1>1, <1>2 DEF Becomes, Knows, Named
<1> QED
  BY <1>1, <1>3, OneTaskMoves

LEMMA SendInv ==
    ASSUME Inv, NEW f \in Fetches, NEW k \in Keys, Send(f, k)
    PROVE  Inv'
<1>1. task[f][k].step = "send" /\ task[f][k].step \in Steps /\ k \in Types
  BY DEF Inv, Knows, Send, At, Steps
<1>2. run' = run /\ SetsTyped' /\ Lasting /\ (Reliable => ConfirmedIsImported')
  BY InvTypes DEF Send, tickets, requests, SetsTyped, Lasting, ConfirmedIsImported
<1>3. CASE End(f, k, "error") /\ UNCHANGED server
  BY <1>1, <1>2, <1>3, InvTypes, FailInv
<1>4. ASSUME NEW id \in Ids, server[id].status = "none",
             server' = [server EXCEPT ![id] = [status |-> "pending", type |-> k]],
             \/ task' = [task EXCEPT ![f][k].step = "insert", ![f][k].id = id]
             \/ Fail(f, k, "answer")
      PROVE  Inv'
  <2>1. server' \in [Ids -> [status : Status, type : Types]]
    BY <1>1, <1>4, InvTypes DEF Status
  <2>2. CASE Fail(f, k, "answer")
    BY <1>1, <1>2, <2>1, <2>2, FailInv DEF Fail
  <2>3. CASE task' = [task EXCEPT ![f][k].step = "insert", ![f][k].id = id]
    <3> DEFINE r == [task[f][k] EXCEPT !.step = "insert", !.id = id]
    <3>1. task[f][k] \in TaskRecord
      BY InvTypes
    <3>2. r \in TaskRecord /\ r.step = "insert" /\ r.id = id
      BY <3>1 DEF TaskRecord, Steps
    <3>3. task' = [task EXCEPT ![f][k] = r]
      BY <2>3, InvTypes
    <3>4. Becomes(f, k, r)
      BY <3>2, <3>3, BecomesBy
    <3>5. Knows(f, k)'
      BY <3>2, <3>4 DEF Becomes, Knows
    <3> QED
      BY <1>1, <1>2, <2>1, <3>2, <3>4, <3>5, OneTaskMoves
  <2> QED
    BY <1>4, <2>2, <2>3
<1> QED
  BY <1>3, <1>4 DEF Send

(* Where only the task moves, and maybe the pending requests.              *)
LEMMA QuietGo ==
    ASSUME Inv, NEW f \in Fetches, NEW k \in Keys, NEW r \in TaskRecord,
           task[f][k].step \in Steps, Becomes(f, k, r), r.step \in {"get", "poll", "import"},
           r.id \in Ids, UNCHANGED <<tickets, api, run>>, pending' \subseteq Ids,
           stale' \subseteq pending'
    PROVE  Inv'
<1>1. Lasting /\ SetsTyped' /\ (Reliable => ConfirmedIsImported')
  BY InvTypes DEF Lasting, SetsTyped, ConfirmedIsImported, tickets, api
<1>2. Knows(f, k)'
  BY DEF Becomes, Knows
<1> QED
  BY <1>1, <1>2, InvTypes, OneTaskMoves DEF api

LEMMA QuietFail ==
    ASSUME Inv, NEW f \in Fetches, NEW k \in Keys,
           task[f][k].step \in Steps, End(f, k, "error"),
           UNCHANGED <<tickets, api, run>>, pending' \subseteq Ids, stale' \subseteq pending'
    PROVE  Inv'
<1>1. Lasting /\ SetsTyped' /\ (Reliable => ConfirmedIsImported')
  BY InvTypes DEF Lasting, SetsTyped, ConfirmedIsImported, tickets, api
<1> QED
  BY <1>1, InvTypes, FailInv DEF api

LEMMA InsertInv ==
    ASSUME Inv, NEW f \in Fetches, NEW k \in Keys, Insert(f, k)
    PROVE  Inv'
<1>1. task[f][k].step \in Steps /\ task[f][k].id \in Ids
  BY DEF Inv, Knows, Insert, At, Named, Steps
<1>2. UNCHANGED <<tickets, api, run>> /\ pending' \subseteq Ids /\ stale' \subseteq pending'
  BY <1>1, InvTypes DEF Insert, Id, SetsTyped
<1>3. CASE Go(f, k, "get")
  <2> DEFINE r == [task[f][k] EXCEPT !.step = "get"]
  <2>1. r \in TaskRecord /\ Becomes(f, k, r)
    BY <1>3, GoBecomes DEF Steps
  <2>2. r.step = "get" /\ r.id = task[f][k].id
    BY InvTypes DEF TaskRecord
  <2> QED
    BY <1>1, <1>2, <2>1, <2>2, QuietGo
<1>4. CASE End(f, k, "error")
  BY <1>1, <1>2, <1>4, QuietFail
<1> QED
  BY <1>3, <1>4 DEF Insert, Fail

LEMMA GetInv ==
    ASSUME Inv, NEW f \in Fetches, NEW k \in Keys, Get(f, k)
    PROVE  Inv'
<1>1. task[f][k].step \in Steps /\ task[f][k].id \in Ids
  BY DEF Inv, Knows, Get, At, Named, Steps
<1>2. UNCHANGED <<tickets, api, run>> /\ pending' \subseteq Ids /\ stale' \subseteq pending'
  BY InvTypes DEF Get, SetsTyped, requests
<1>3. CASE Go(f, k, "poll")
  <2> DEFINE r == [task[f][k] EXCEPT !.step = "poll"]
  <2>1. r \in TaskRecord /\ Becomes(f, k, r)
    BY <1>3, GoBecomes DEF Steps
  <2>2. r.step = "poll" /\ r.id = task[f][k].id
    BY InvTypes DEF TaskRecord
  <2> QED
    BY <1>1, <1>2, <2>1, <2>2, QuietGo
<1>4. CASE End(f, k, "error")
  BY <1>1, <1>2, <1>4, QuietFail
<1> QED
  BY <1>3, <1>4 DEF Get, Fail

LEMMA PollInv ==
    ASSUME Inv, NEW f \in Fetches, NEW k \in Keys, Poll(f, k)
    PROVE  Inv'
<1>1. task[f][k].step \in Steps /\ task[f][k].id \in Ids
  BY DEF Inv, Knows, Poll, At, Named, Steps
<1>2. UNCHANGED <<tickets, api, run>> /\ pending' \subseteq Ids /\ stale' \subseteq pending'
  BY InvTypes DEF Poll, SetsTyped, requests
<1>3. CASE End(f, k, "error")
  BY <1>1, <1>2, <1>3, QuietFail
<1>4. ASSUME NEW got \in Results,
             task' = [task EXCEPT ![f][k].step = "import", ![f][k].got = got]
      PROVE  Inv'
  <2> DEFINE r == [task[f][k] EXCEPT !.step = "import", !.got = got]
  <2>1. task[f][k] \in TaskRecord
    BY InvTypes
  <2>2. r \in TaskRecord /\ r.step = "import" /\ r.id = task[f][k].id
    BY <2>1 DEF TaskRecord, Steps
  <2>3. task' = [task EXCEPT ![f][k] = r]
    BY <1>4, InvTypes
  <2>4. Becomes(f, k, r)
    BY <2>2, <2>3, BecomesBy
  <2> QED
    BY <1>1, <1>2, <2>2, <2>4, QuietGo
<1> QED
  BY <1>3, <1>4 DEF Poll, Fail, Results

LEMMA ImportInv ==
    ASSUME Inv, NEW f \in Fetches, NEW k \in Keys, Import(f, k)
    PROVE  Inv'
<1> DEFINE id == task[f][k].id
           r == [task[f][k] EXCEPT !.step = "confirm"]
<1>1. task[f][k].step \in Steps /\ id \in Ids
  BY DEF Inv, Knows, Import, At, Named, Steps
<1>2. UNCHANGED <<api, requests, run>>
  BY DEF Import
<1>3. server' \in [Ids -> [status : Status, type : Types]]
  BY <1>2, InvTypes DEF api
<1>4. CASE Go(f, k, "confirm") /\ (Stored(f, k) \/ (~Reliable /\ UNCHANGED tickets))
  <2>1. r \in TaskRecord /\ Becomes(f, k, r)
    BY <1>4, GoBecomes DEF Steps
  <2>2. r.step = "confirm" /\ r.id = id
    BY InvTypes DEF TaskRecord
  <2>3. /\ low' \subseteq Types /\ stored \subseteq stored' /\ stored' \subseteq Ids
        /\ Reliable => id \in stored'
    BY <1>1, <1>4, InvTypes DEF Stored, Id, SetsTyped, tickets
  <2>4. Lasting /\ SetsTyped' /\ (Reliable => ConfirmedIsImported')
    BY <1>2, <2>3, InvTypes DEF Lasting, SetsTyped, ConfirmedIsImported, api, requests
  <2>5. Knows(f, k)'
    BY <1>1, <2>1, <2>2, <2>3 DEF Becomes, Knows
  <2> QED
    BY <1>1, <1>2, <1>3, <2>1, <2>4, <2>5, OneTaskMoves
<1>5. CASE End(f, k, "error") /\ UNCHANGED tickets
  BY <1>1, <1>2, <1>5, InvTypes, QuietFail DEF SetsTyped, requests
<1> QED
  BY <1>4, <1>5 DEF Import, Fail, Reliable

LEMMA ConfirmInv ==
    ASSUME Inv, NEW f \in Fetches, NEW k \in Keys, Confirm(f, k)
    PROVE  Inv'
<1> DEFINE id == task[f][k].id
           r == [task[f][k] EXCEPT !.step = "remove"]
<1>1. task[f][k].step \in Steps /\ id \in Ids /\ (Reliable => id \in stored)
  BY DEF Inv, Knows, Confirm, At, Named, Steps
<1>2. UNCHANGED <<tickets, server, requests, run>>
  BY DEF Confirm
<1>3. confirmed' \in {confirmed, confirmed \cup {id}}
  BY DEF Confirm, ConfirmFails, Id
<1>4. Lasting /\ SetsTyped' /\ (Reliable => ConfirmedIsImported')
  BY <1>1, <1>2, <1>3, InvTypes DEF Lasting, SetsTyped, ConfirmedIsImported, tickets, requests
<1>5. CASE confirmed' = confirmed \cup {id} /\ Go(f, k, "remove")
  <2>1. r \in TaskRecord /\ Becomes(f, k, r)
    BY <1>5, GoBecomes DEF Steps
  <2>2. r.step = "remove" /\ r.id = id
    BY InvTypes DEF TaskRecord
  <2>3. Knows(f, k)'
    BY <1>1, <1>5, <2>1, <2>2 DEF Becomes, Knows
  <2> QED
    BY <1>1, <1>2, <1>4, <2>1, <2>3, InvTypes, OneTaskMoves
<1>6. CASE End(f, k, "error")
  BY <1>1, <1>2, <1>4, <1>6, InvTypes, FailInv
<1> QED
  BY <1>5, <1>6 DEF Confirm, ConfirmFails, Id

LEMMA RemoveInv ==
    ASSUME Inv, NEW f \in Fetches, NEW k \in Keys, Remove(f, k)
    PROVE  Inv'
<1>1. /\ task[f][k].step \in Steps /\ task[f][k].id \in confirmed
      /\ task[f][k].got \in Results
  BY InvTypes DEF Inv, Knows, Remove, At, TaskRecord, Steps
<1>2. UNCHANGED <<tickets, api, run>> /\ pending' \subseteq Ids /\ stale' \subseteq pending'
  BY InvTypes DEF Remove, SetsTyped, requests
<1>3. CASE End(f, k, "error")
  BY <1>1, <1>2, <1>3, QuietFail
<1>4. CASE End(f, k, task[f][k].got)
  <2> DEFINE r == [task[f][k] EXCEPT !.step = "done", !.got = task[f][k].got]
  <2>1. r \in TaskRecord /\ Becomes(f, k, r)
    BY <1>1, <1>4, EndBecomes
  <2>2. r.step = "done" /\ r.id = task[f][k].id
    BY InvTypes DEF TaskRecord
  <2>3. Knows(f, k)'
    BY <1>1, <1>2, <2>1, <2>2 DEF Becomes, Knows, Named, api
  <2>4. Lasting /\ SetsTyped' /\ (Reliable => ConfirmedIsImported')
    BY <1>2, InvTypes DEF Lasting, SetsTyped, ConfirmedIsImported, tickets, api
  <2> QED
    BY <1>1, <1>2, <2>1, <2>3, <2>4, InvTypes, OneTaskMoves DEF api
<1> QED
  BY <1>3, <1>4 DEF Remove, Fail

-----------------------------------------------------------------------------
(* A step of a fetch: all its tasks are set up, kept or dropped.           *)

(* The tasks of the fetch f are now new ones, or as they were.             *)
Sets(f, new) ==
    /\ task' \in [Fetches -> [Keys -> TaskRecord]]
    /\ \A g \in Fetches : g # f => task'[g] = task[g] /\ run'[g] = run[g]
    /\ \A k \in Keys :
        \/ task'[f][k] \in new
        \/ task'[f][k] = task[f][k] /\ task[f][k].step = "done"

(* A task that has only begun to send or to resume knows nothing yet.      *)
Fresh ==
    {r \in TaskRecord : /\ r.step \in {"none", "send", "get"}
                        /\ r.step = "get" => r.id \in Ids}

LEMMA FetchMoves ==
    ASSUME Inv, NEW f \in Fetches, Sets(f, Fresh), run' \in [Fetches -> RunRecord],
           UNCHANGED <<tickets, api>>, SetsTyped',
           \A k \in Keys : task'[f][k].step = "send" => k \in Types,
           run'[f].phase \in NotBegun => Tasks(f)' = {},
           Tasks(f)' \cap Types \subseteq run'[f].types,
           Tells(run'[f].phase, task'[f])
    PROVE  Inv'
<1>1. ZkNymTypeOK'
  BY InvTypes DEF Sets, ZkNymTypeOK, SetsTyped, api, Keys, TaskRecord, RunRecord
<1>2. Phased'
  BY DEF Inv, Phased, Sets, Tasks
<1>3. ASSUME NEW g \in Fetches, NEW k \in Keys PROVE Knows(g, k)'
  <2>1. Knows(g, k)
    BY DEF Inv
  <2>2. CASE task'[g][k] = task[g][k]
    BY <2>1, <2>2 DEF Knows, tickets, api
  <2>3. CASE g = f /\ task'[g][k] \in Fresh
    BY <2>3 DEF Knows, Fresh, Named
  <2> QED
    BY <2>2, <2>3 DEF Sets
<1>4. Reliable => ConfirmedIsImported'
  BY InvTypes DEF ConfirmedIsImported, tickets, api
<1>5. Told'
  BY DEF Inv, Told, Sets
<1> QED
  BY <1>1, <1>2, <1>3, <1>4, <1>5 DEF Inv

(* The same for the form the steps have: a new record and new tasks of f.  *)
FetchTo(f, r, t) ==
    /\ run' = [run EXCEPT ![f] = r]
    /\ task' = [task EXCEPT ![f] = t]
    /\ UNCHANGED <<tickets, api>> /\ SetsTyped'

(* The tasks t suit the fetch f in its new state r.                        *)
Suits(f, r, t) ==
    /\ \A k \in Keys : t[k] \in Fresh \/ (t[k] = task[f][k] /\ task[f][k].step = "done")
    /\ \A k \in Keys : t[k].step = "send" => k \in Types
    /\ r.phase \in NotBegun => \A k \in Keys : t[k].step = "none"
    /\ \A k \in Types : t[k].step # "none" => k \in r.types
    /\ Tells(r.phase, t)

LEMMA FetchBecomes ==
    ASSUME Inv, NEW f \in Fetches, NEW r \in RunRecord, NEW t \in [Keys -> TaskRecord],
           FetchTo(f, r, t), Suits(f, r, t)
    PROVE  Inv'
<1>1. /\ task' \in [Fetches -> [Keys -> TaskRecord]] /\ task'[f] = t
      /\ run' \in [Fetches -> RunRecord] /\ run'[f] = r
      /\ \A g \in Fetches : g # f => task'[g] = task[g] /\ run'[g] = run[g]
  BY InvTypes DEF FetchTo
<1>2. Sets(f, Fresh)
  BY <1>1 DEF Sets, Suits
<1>3. Tasks(f)' = {k \in Keys : t[k].step # "none"}
  BY <1>1 DEF Tasks, Keys
<1>4. Tasks(f)' \cap Types \subseteq run'[f].types
  BY <1>1, <1>3 DEF Suits
<1>5. run'[f].phase \in NotBegun => Tasks(f)' = {}
  BY <1>1, <1>3 DEF Suits
<1>6. /\ \A k \in Keys : task'[f][k].step = "send" => k \in Types
      /\ Tells(run'[f].phase, task'[f])
  BY <1>1 DEF Suits
<1> QED
  BY <1>1, <1>2, <1>4, <1>5, <1>6, FetchMoves DEF FetchTo

LEMMA FreshTasks ==
    /\ NoTask \in Fresh /\ NoTask.step = "none"
    /\ [NoTask EXCEPT !.step = "send"] \in Fresh
    /\ [NoTask EXCEPT !.step = "send"].step = "send"
    /\ \A k \in Ids : /\ [NoTask EXCEPT !.step = "get", !.id = k] \in Fresh
                      /\ [NoTask EXCEPT !.step = "get", !.id = k].step = "get"
<1>1. NoTask \in TaskRecord /\ NoTask.step = "none"
  BY NoTaskTyped DEF NoTask
<1>2. /\ [NoTask EXCEPT !.step = "send"] \in TaskRecord
      /\ [NoTask EXCEPT !.step = "send"].step = "send"
  BY <1>1 DEF TaskRecord, Steps
<1>3. ASSUME NEW k \in Ids
      PROVE  LET r == [NoTask EXCEPT !.step = "get", !.id = k]
             IN  r \in TaskRecord /\ r.step = "get" /\ r.id = k
  BY <1>1 DEF TaskRecord, Steps
<1> QED
  BY <1>1, <1>2, <1>3 DEF Fresh

(* A fetch whose tasks, if any, are dropped or left as they were: none.    *)
LEMMA FetchWithoutTasks ==
    ASSUME Inv, NEW f \in Fetches, NEW r \in RunRecord, NEW t \in [Keys -> TaskRecord],
           FetchTo(f, r, t), \A k \in Keys : t[k].step = "none", r.phase \notin Reports
    PROVE  Inv'
<1>1. Suits(f, r, t)
  BY DEF Suits, Fresh, Tells, Keys
<1> QED
  BY <1>1, FetchBecomes

LEMMA IdleInv ==
    ASSUME Inv, NEW f \in Fetches, Idle(f)
    PROVE  Inv'
<1> DEFINE t == [k \in Keys |-> NoTask]
<1>1. t \in [Keys -> TaskRecord] /\ \A k \in Keys : t[k].step = "none"
  BY NoTaskTyped DEF NoTask
<1>2. NoRun \in RunRecord /\ NoRun.phase \notin Reports
  BY DEF NoRun, RunRecord, Reports
<1>3. FetchTo(f, NoRun, t)
  BY InvTypes DEF Idle, Keys, FetchTo, SetsTyped, tickets, api, requests
<1> QED
  BY <1>1, <1>2, <1>3, FetchWithoutTasks

(* A fetch that has not begun its requests, and does not in this step.     *)
LEMMA NoTasksYet ==
    ASSUME Inv, NEW f \in Fetches, NEW r \in RunRecord, run' = [run EXCEPT ![f] = r],
           Tasks(f) = {}, task' = task, r.phase \notin Reports,
           UNCHANGED <<tickets, api>>, SetsTyped'
    PROVE  Inv'
<1>1. task[f] \in [Keys -> TaskRecord] /\ task' = [task EXCEPT ![f] = task[f]]
  BY InvTypes
<1>2. \A k \in Keys : task[f][k].step = "none"
  BY DEF Tasks, Keys
<1>3. FetchTo(f, r, task[f])
  BY <1>1 DEF FetchTo
<1> QED
  BY <1>1, <1>2, <1>3, FetchWithoutTasks

(* Spawning the requests for the types of a fetch.                         *)
LEMMA RequestsInv ==
    ASSUME Inv, NEW f \in Fetches, Tasks(f) = {}, NothingToResume(f),
           UNCHANGED <<tickets, api, requests>>
    PROVE  Inv'
<1> DEFINE r == [run[f] EXCEPT !.phase = "requesting", !.ids = {}]
           t == [k \in Keys |-> IF k \in r.types THEN [NoTask EXCEPT !.step = "send"]
                                ELSE task[f][k]]
<1>1. \A k \in Keys : task[f][k] \in TaskRecord /\ task[f][k].step = "none"
  BY InvTypes DEF Tasks, Keys
<1>2. \A k \in Keys : task[f][k] \in Fresh
  BY <1>1 DEF Fresh
<1>3. /\ r \in RunRecord /\ r.phase = "requesting" /\ r.types = run[f].types
      /\ run' = [run EXCEPT ![f] = r]
  <2>1. run[f] \in RunRecord
    BY InvTypes
  <2> QED
    BY <2>1, InvTypes DEF RunRecord, NothingToResume
<1>4. r.types \subseteq Types
  BY <1>3 DEF RunRecord
<1>5. /\ t \in [Keys -> TaskRecord]
      /\ \A k \in Keys : t[k] = IF k \in r.types THEN [NoTask EXCEPT !.step = "send"]
                                ELSE task[f][k]
  BY <1>1, FreshTasks DEF Fresh
<1>6. task' = [task EXCEPT ![f] = t]
  BY <1>3 DEF NothingToResume, SpawnRequests, Keys
<1>7. FetchTo(f, r, t)
  BY <1>3, <1>6, InvTypes DEF FetchTo, SetsTyped, tickets, api, requests
<1> HIDE DEF r, t
<1>8. \A k \in Keys : t[k] \in Fresh
  BY <1>2, <1>5, FreshTasks
<1>9. \A k \in Keys : t[k].step = IF k \in r.types THEN "send" ELSE "none"
  BY <1>1, <1>5, FreshTasks
<1>10. Suits(f, r, t)
  BY <1>3, <1>4, <1>8, <1>9 DEF Keys, Suits, NotBegun, Before, Tells, Reports
<1> QED
  BY <1>3, <1>5, <1>7, <1>10, FetchBecomes

LEMMA BeginFetchInv ==
    ASSUME Inv, NEW f \in Fetches, BeginFetch(f)
    PROVE  Inv'
<1>1. Tasks(f) = {} /\ run[f] \in RunRecord
  BY InvTypes DEF Inv, Phased, BeginFetch, NotBegun
<1>2. UNCHANGED <<tickets, api>> /\ SetsTyped' /\ task' = task
  BY InvTypes DEF BeginFetch, SetsTyped, tickets, api, requests
<1>3. ASSUME NEW phase \in {"SufficientBandwidth", "cleaning"},
             run' = [run EXCEPT ![f].phase = phase, ![f].types = low]
      PROVE  Inv'
  <2> DEFINE r == [run[f] EXCEPT !.phase = phase, !.types = low]
  <2>1. r \in RunRecord /\ r.phase \notin Reports
    BY <1>1, InvTypes DEF RunRecord, SetsTyped, Outcomes, Before, Reports
  <2>2. run' = [run EXCEPT ![f] = r]
    BY <1>3, InvTypes
  <2> QED
    BY <1>1, <1>2, <2>1, <2>2, NoTasksYet
<1>4. CASE Phase(f, "Error")
  <2> DEFINE r == [run[f] EXCEPT !.phase = "Error"]
  <2>1. r \in RunRecord /\ r.phase \notin Reports
    BY <1>1 DEF RunRecord, Outcomes, Reports
  <2>2. run' = [run EXCEPT ![f] = r]
    BY <1>4, InvTypes DEF Phase
  <2> QED
    BY <1>1, <1>2, <2>1, <2>2, NoTasksYet
<1> QED
  BY <1>3, <1>4 DEF BeginFetch

LEMMA CleanUpInv ==
    ASSUME Inv, NEW f \in Fetches, CleanUp(f)
    PROVE  Inv'
<1>1. Tasks(f) = {} /\ run[f] \in RunRecord
  BY InvTypes DEF Inv, Phased, CleanUp, NotBegun, Before
<1>2. UNCHANGED <<tickets, api>> /\ SetsTyped' /\ task' = task
  BY InvTypes DEF CleanUp, SetsTyped, tickets, api, requests
<1> DEFINE r == [run[f] EXCEPT !.phase = "reading"]
<1>3. r \in RunRecord /\ r.phase \notin Reports
  BY <1>1 DEF RunRecord, Before, Reports
<1>4. run' = [run EXCEPT ![f] = r]
  BY InvTypes DEF CleanUp, Phase
<1> QED
  BY <1>1, <1>2, <1>3, <1>4, NoTasksYet

LEMMA ReadPendingInv ==
    ASSUME Inv, NEW f \in Fetches, ReadPending(f)
    PROVE  Inv'
<1>1. Tasks(f) = {} /\ run[f] \in RunRecord
  BY InvTypes DEF Inv, Phased, ReadPending, NotBegun, Before
<1>2. UNCHANGED <<tickets, api, requests>>
  BY DEF ReadPending
<1>3. CASE NothingToResume(f)
  BY <1>1, <1>2, <1>3, RequestsInv
<1>4. CASE run' = [run EXCEPT ![f].phase = "listing", ![f].ids = pending] /\ UNCHANGED task
  <2> DEFINE r == [run[f] EXCEPT !.phase = "listing", !.ids = pending]
  <2>1. r \in RunRecord /\ r.phase \notin Reports
    BY <1>1, InvTypes DEF RunRecord, SetsTyped, Before, Reports
  <2>2. run' = [run EXCEPT ![f] = r]
    BY <1>4, InvTypes
  <2>3. UNCHANGED <<tickets, api>> /\ SetsTyped'
    BY <1>2, InvTypes DEF SetsTyped, tickets, api, requests
  <2> QED
    BY <1>1, <1>4, <2>1, <2>2, <2>3, NoTasksYet
<1> QED
  BY <1>3, <1>4 DEF ReadPending

LEMMA ListInv ==
    ASSUME Inv, NEW f \in Fetches, List(f)
    PROVE  Inv'
<1>1. Tasks(f) = {} /\ UNCHANGED <<tickets, api, requests>>
  BY DEF Inv, Phased, List, NotBegun, Before
<1>2. run[f] \in RunRecord
  BY InvTypes
<1>3. CASE NothingToResume(f)
  BY <1>1, <1>3, RequestsInv
<1>4. ASSUME NEW ids \in SUBSET Ids, task' = SpawnResumes(f, ids),
             run' = [run EXCEPT ![f].phase = "resuming", ![f].ids = {}]
      PROVE  Inv'
  <2> DEFINE r == [run[f] EXCEPT !.phase = "resuming", !.ids = {}]
             t == [k \in Keys |->
                      IF k \in ids THEN [NoTask EXCEPT !.step = "get", !.id = k]
                      ELSE task[f][k]]
  <2>1. r \in RunRecord /\ r.phase = "resuming" /\ r.types = run[f].types
    BY <1>2 DEF RunRecord
  <2>2. run' = [run EXCEPT ![f] = r]
    BY <1>4, InvTypes
  <2>3. task' = [task EXCEPT ![f] = t]
    BY <1>4 DEF SpawnResumes, Keys
  <2>4. \A k \in Keys : task[f][k] \in Fresh /\ task[f][k].step = "none"
    BY <1>1, InvTypes DEF Tasks, Keys, Fresh
  <2>5. \A k \in Keys : t[k] = IF k \in ids THEN [NoTask EXCEPT !.step = "get", !.id = k]
                               ELSE task[f][k]
    OBVIOUS
  <2>6. \A k \in Keys : /\ t[k] \in Fresh
                        /\ t[k].step = IF k \in ids THEN "get" ELSE "none"
    BY <2>4, <2>5, FreshTasks
  <2>7. t \in [Keys -> TaskRecord]
    BY <2>6 DEF Fresh
  <2>8. \A k \in Types : t[k].step = "none"
    BY <2>6, ZkNymAssumption DEF Keys
  <2>9. FetchTo(f, r, t)
    BY <1>1, <2>2, <2>3, InvTypes DEF FetchTo, SetsTyped, tickets, api, requests
  <2> HIDE DEF r, t
  <2>10. Suits(f, r, t)
    BY <2>1, <2>6, <2>8 DEF Keys, Suits, NotBegun, Before, Tells, Reports
  <2> QED
    BY <2>1, <2>7, <2>9, <2>10, FetchBecomes
<1>5. Ready \subseteq Ids
  BY DEF Ready
<1> QED
  BY <1>3, <1>4, <1>5 DEF List

LEMMA GotTyped ==
    ASSUME Inv, NEW f \in Fetches
    PROVE  Got(f) \subseteq Results
BY InvTypes DEF Got, Tasks, Keys, TaskRecord

LEMMA OutcomeTyped ==
    ASSUME NEW got \in SUBSET Results
    PROVE  /\ Outcome(got) \in Outcomes
           /\ Outcome(got) \in Reports => got # {} /\ "error" \notin got
           /\ Outcome(got) = "UpgradeMode" => "upgrade_mode" \in got
<1>1. CASE got = {}
  BY <1>1 DEF Outcome, Outcomes, Reports
<1>2. CASE got # {} /\ "error" \in got
  BY <1>2 DEF Outcome, Outcomes, Reports
<1>3. CASE got # {} /\ "error" \notin got /\ "upgrade_mode" \in got
  BY <1>3 DEF Outcome, Outcomes, Reports
<1>4. CASE got # {} /\ "error" \notin got /\ "upgrade_mode" \notin got
  BY <1>4 DEF Outcome, Outcomes, Reports
<1> QED
  BY <1>1, <1>2, <1>3, <1>4

(* What a fetch reports, its tasks that are left have done.                *)
LEMMA JoinedTells ==
    ASSUME Inv, NEW f \in Fetches, NEW t \in [Keys -> TaskRecord],
           \A k \in Keys : IF task[f][k].step = "done" THEN t[k] = task[f][k]
                           ELSE t[k].step = "none"
    PROVE  Tells(Outcome(Got(f)), t)
<1> SUFFICES ASSUME Outcome(Got(f)) \in Reports
             PROVE  /\ \A k \in Keys : t[k].step # "none" =>
                                          t[k].step = "done" /\ t[k].got # "error"
                    /\ \E k \in Keys : /\ t[k].step = "done"
                                       /\ Outcome(Got(f)) = "UpgradeMode" =>
                                              t[k].got = "upgrade_mode"
  BY DEF Tells
<1>1. /\ Got(f) # {} /\ "error" \notin Got(f)
      /\ Outcome(Got(f)) = "UpgradeMode" => "upgrade_mode" \in Got(f)
  BY GotTyped, OutcomeTyped
<1>2. Got(f) = {task[f][k].got : k \in {x \in Keys : task[f][x].step = "done"}}
  BY DEF Got, Tasks, Keys
<1> QED
  BY <1>1, <1>2

LEMMA JoinedInv ==
    ASSUME Inv, NEW f \in Fetches, Joined(f)
    PROVE  Inv'
<1> DEFINE kept == [k \in Keys |-> IF task[f][k].step = "done" THEN task[f][k] ELSE NoTask]
           asked == [k \in Keys |-> IF k \in run[f].types THEN [NoTask EXCEPT !.step = "send"]
                                    ELSE kept[k]]
<1>1. run[f] \in RunRecord /\ Tasks(f) \cap Types \subseteq run[f].types
  BY InvTypes DEF Inv, Phased
<1>2. run[f].types \subseteq Types
  BY <1>1 DEF RunRecord
<1>3. \A k \in Keys : /\ task[f][k] \in TaskRecord
                      /\ k \in Types /\ task[f][k].step = "done" => k \in run[f].types
  BY <1>1, InvTypes DEF Tasks, Keys
<1>4. \A k \in Keys : /\ kept[k] \in TaskRecord
                      /\ \/ kept[k] \in Fresh /\ kept[k].step = "none"
                         \/ kept[k] = task[f][k] /\ task[f][k].step = "done"
  BY <1>3, NoTaskTyped, FreshTasks
<1>5. \A k \in Keys : asked[k] = IF k \in run[f].types THEN [NoTask EXCEPT !.step = "send"]
                                 ELSE kept[k]
  OBVIOUS
<1>6. kept \in [Keys -> TaskRecord] /\ asked \in [Keys -> TaskRecord]
  <2>1. \A k \in Keys : asked[k] \in TaskRecord
    BY <1>4, <1>5, FreshTasks DEF Fresh
  <2> QED
    BY <1>4, <2>1
<1>7. UNCHANGED <<tickets, api>> /\ SetsTyped'
  BY InvTypes DEF Joined, SetsTyped, tickets, api, requests
<1>8. CASE run[f].phase = "resuming"
  <2> DEFINE r == [run[f] EXCEPT !.phase = "requesting"]
  <2>1. r \in RunRecord /\ r.phase = "requesting" /\ r.types = run[f].types
    BY <1>1 DEF RunRecord
  <2>2. FetchTo(f, r, asked)
    BY <1>7, <1>8, InvTypes DEF Joined, FetchTo, Phase, Keys
  <2> HIDE DEF r, kept, asked
  <2>3. \A k \in Keys : /\ asked[k] \in Fresh \/ (asked[k] = task[f][k] /\ task[f][k].step = "done")
                        /\ asked[k].step = "send" => k \in run[f].types
                        /\ k \in Types /\ asked[k].step # "none" => k \in run[f].types
    BY <1>3, <1>4, <1>5, FreshTasks
  <2>4. Suits(f, r, asked)
    BY <1>2, <2>1, <2>3 DEF Suits, Keys, NotBegun, Before, Tells, Reports
  <2> QED
    BY <1>6, <2>1, <2>2, <2>4, FetchBecomes
<1>9. CASE run[f].phase # "resuming"
  <2> DEFINE r == [run[f] EXCEPT !.phase = Outcome(Got(f))]
  <2>1. Outcome(Got(f)) \in Outcomes
    BY GotTyped, OutcomeTyped
  <2>2. r \in RunRecord /\ r.phase = Outcome(Got(f)) /\ r.types = run[f].types
    BY <1>1, <2>1 DEF RunRecord
  <2>3. r.phase \notin NotBegun
    BY <2>1, <2>2 DEF Outcomes, NotBegun, Before
  <2>4. FetchTo(f, r, kept)
    BY <1>7, <1>9, InvTypes DEF Joined, FetchTo, Phase, Keys
  <2>5. \A k \in Keys : IF task[f][k].step = "done" THEN kept[k] = task[f][k]
                         ELSE kept[k].step = "none"
    BY FreshTasks
  <2> HIDE DEF r, kept, asked
  <2>6. Tells(Outcome(Got(f)), kept)
    BY <1>6, <2>5, JoinedTells
  <2>7. Suits(f, r, kept)
    BY <1>3, <1>4, <2>2, <2>3, <2>6 DEF Suits, Keys
  <2> QED
    BY <1>6, <2>2, <2>4, <2>7, FetchBecomes
<1> QED
  BY <1>8, <1>9

-----------------------------------------------------------------------------
(* The environment, and all steps together.                                *)

(* A step that no task and no fetch takes.                                 *)
LEMMA OutsideInv ==
    ASSUME Inv, UNCHANGED <<stored, confirmed, run, task>>, SetsTyped',
           server' \in [Ids -> [status : Status, type : Types]]
    PROVE  Inv'
<1>1. ZkNymTypeOK'
  BY DEF Inv, ZkNymTypeOK, SetsTyped
<1>2. Phased' /\ Told'
  BY DEF Inv, Phased, Tasks, Told
<1>3. ASSUME NEW f \in Fetches, NEW k \in Keys PROVE Knows(f, k)'
  <2>1. Knows(f, k)
    BY DEF Inv
  <2> QED
    BY <2>1 DEF Knows
<1>4. Reliable => ConfirmedIsImported'
  BY InvTypes DEF ConfirmedIsImported
<1> QED
  BY <1>1, <1>2, <1>3, <1>4 DEF Inv

LEMMA IssueInv ==
    ASSUME Inv, NEW id \in Ids, Issue(id)
    PROVE  Inv'
<1>1. UNCHANGED <<tickets, confirmed, requests, run, task>>
  BY DEF Issue
<1>2. \E status \in {"active", "upgrade_mode", "failed"} :
          server' = [server EXCEPT ![id].status = status]
  BY DEF Issue
<1>3. server' \in [Ids -> [status : Status, type : Types]]
  BY <1>2, InvTypes DEF Status
<1> QED
  BY <1>1, <1>3, InvTypes, OutsideInv DEF tickets, requests, SetsTyped

LEMMA AgeInv ==
    ASSUME Inv, NEW id \in Ids, Age(id)
    PROVE  Inv'
BY InvTypes, OutsideInv DEF Age, tickets, api, SetsTyped

LEMMA UseInv ==
    ASSUME Inv, NEW t \in Types, Use(t)
    PROVE  Inv'
BY InvTypes, OutsideInv DEF Use, api, requests, SetsTyped

LEMMA NextInv ==
    ASSUME Inv, [Next]_vars
    PROVE  Inv'
<1>1. ASSUME NEW f \in Fetches, NEW k \in Keys, TaskStep(f, k) PROVE Inv'
  BY <1>1, SendInv, InsertInv, GetInv, PollInv, ImportInv, ConfirmInv, RemoveInv DEF TaskStep
<1>2. ASSUME NEW f \in Fetches, FetchStep(f) PROVE Inv'
  BY <1>1, <1>2, BeginFetchInv, CleanUpInv, ReadPendingInv, ListInv, JoinedInv, IdleInv
     DEF FetchStep, Handled, Keys
<1>3. ASSUME NEW f \in Fetches, Abort(f) PROVE Inv'
  BY <1>3, IdleInv DEF Abort
<1>4. CASE UNCHANGED vars
  BY <1>4, InvTypes, OutsideInv DEF vars, tickets, api, requests, SetsTyped
<1> QED
  BY <1>2, <1>3, <1>4, IssueInv, AgeInv, UseInv DEF Next

-----------------------------------------------------------------------------
(* The theorems.                                                           *)

(* The invariant holds whatever fails and whenever fetches are aborted.    *)
THEOREM RequestsInvariant == Spec => []Inv
<1>1. Init => Inv
  BY InitInv
<1>2. Inv /\ [Next]_vars => Inv'
  BY NextInv
<1> QED
  BY <1>1, <1>2, PTL DEF Spec

(* Every variable keeps its type, and the tasks of a fetch are of its      *)
(* phase, for any number of fetches, ids and types of tickets.             *)
THEOREM RequestsTypeCorrect == Spec => []TypeOK
<1>1. Inv => TypeOK
  BY DEF Inv, TypeOK, Phased, NotBegun
<1> QED
  BY <1>1, RequestsInvariant, PTL

(* What the API takes for downloaded is on disk, provided that the database*)
(* does not fail in silence: the one assumption `import_zk_nym` needs, and *)
(* without which the property is violated.                                 *)
THEOREM ConfirmedOnDisk == Reliable => (Spec => []ConfirmedIsImported)
<1> SUFFICES ASSUME Reliable PROVE Spec => []ConfirmedIsImported
  OBVIOUS
<1>1. Inv => ConfirmedIsImported
  BY DEF Inv
<1> QED
  BY <1>1, RequestsInvariant, PTL

(* Under the same assumption, what a fetch reports to the account          *)
(* controller is stored and confirmed, although its timeout drops tasks at *)
(* any step and other fetches resume, delete and confirm the same requests.*)
THEOREM ReportedOnDisk == Reliable => (Spec => []ReportedIsStored)
<1> SUFFICES ASSUME Reliable PROVE Spec => []ReportedIsStored
  OBVIOUS
<1>1. ASSUME Inv PROVE ReportedIsStored
  <2>1. ASSUME NEW f \in Fetches, NEW k \in Keys,
               task[f][k].step = "done", task[f][k].got # "error"
        PROVE  Id(f, k) \in stored \cap confirmed
    BY <1>1, <2>1 DEF Inv, Knows, ConfirmedIsImported, Id
  <2>2. ASSUME NEW f \in Fetches, run[f].phase \in Reports
        PROVE  /\ \A k \in Tasks(f) : task[f][k].step = "done" /\ task[f][k].got # "error"
               /\ \E k \in Tasks(f) :
                     run[f].phase = "UpgradeMode" => task[f][k].got = "upgrade_mode"
    <3>1. /\ \A k \in Keys : task[f][k].step # "none" =>
                              task[f][k].step = "done" /\ task[f][k].got # "error"
          /\ \E k \in Keys : /\ task[f][k].step = "done"
                             /\ run[f].phase = "UpgradeMode" => task[f][k].got = "upgrade_mode"
      <4>1. Tells(run[f].phase, task[f])
        BY <1>1 DEF Inv, Told
      <4> QED
        BY <2>2, <4>1 DEF Tells
    <3>2. PICK k \in Keys : /\ task[f][k].step = "done"
                            /\ run[f].phase = "UpgradeMode" => task[f][k].got = "upgrade_mode"
      BY <3>1
    <3>3. k \in Tasks(f)
      BY <3>2 DEF Tasks, Keys
    <3> QED
      BY <3>1, <3>2, <3>3 DEF Tasks, Keys
  <2> QED
    BY <2>1, <2>2 DEF ReportedIsStored, Reports, Tasks, Keys
<1> QED
  BY <1>1, RequestsInvariant, PTL

(* No step of any fetch gives up the secret of a request that the API was  *)
(* not told of, but the deletion of one that is 60 days old.               *)
THEOREM SecretIsKept == Spec => KeptUntilConfirmed
<1>1. ASSUME Inv, [Next]_vars
      PROVE  pending \ pending' \subseteq confirmed \cup stale
  <2> SUFFICES ASSUME NEW id \in pending, id \notin pending'
               PROVE  id \in confirmed \cup stale
    OBVIOUS
  <2>1. ASSUME NEW f \in Fetches, NEW k \in Keys, TaskStep(f, k)
        PROVE  id \in confirmed
    <3>1. CASE Insert(f, k)
      BY <3>1 DEF Insert
    <3>2. CASE Remove(f, k)
      <4>1. id = task[f][k].id /\ task[f][k].step = "remove"
        BY <3>2 DEF Remove, Id, At, requests
      <4> QED
        BY <4>1, <1>1 DEF Inv, Knows
    <3> QED
      BY <2>1, <3>1, <3>2 DEF TaskStep, Send, Get, Poll, Import, Confirm, requests
  <2>2. ASSUME NEW f \in Fetches, CleanUp(f) PROVE id \in stale
    BY <2>2 DEF CleanUp, requests
  <2>3. ~ \E f \in Fetches :
            BeginFetch(f) \/ ReadPending(f) \/ List(f) \/ Joined(f) \/ Handled(f) \/ Abort(f)
    BY DEF BeginFetch, ReadPending, List, Joined, Handled, Abort, Idle, requests
  <2>4. ~ \E i \in Ids : Issue(i) \/ Age(i)
    BY DEF Issue, Age, requests
  <2>5. ~ \E t \in Types : Use(t)
    BY DEF Use, requests
  <2>6. ~UNCHANGED vars
    BY DEF vars, requests
  <2> QED
    BY <1>1, <2>1, <2>2, <2>3, <2>4, <2>5, <2>6 DEF Next, FetchStep, Keys
<1>2. Inv /\ [Next]_vars => [pending \ pending' \subseteq confirmed \cup stale]_vars
  BY <1>1
<1> QED
  BY <1>2, RequestsInvariant, PTL DEF Spec, KeptUntilConfirmed

=============================================================================
