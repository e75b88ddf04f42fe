----------------------------- MODULE ZkNymRequests -----------------------------
(***************************************************************************)
(* How the account controller gets zk-nym ticketbooks: fetch_zk_nyms and   *)
(* the tasks of RequestZkNymCommandHandler.                                *)
(*                                                                         *)
(* A ticketbook is asked of the VPN API, which answers with an id.  The    *)
(* secret to unblind it with is then kept in a database of pending requests*)
(* until the ticketbook is ready, stored, and confirmed to the API, or the *)
(* request is 60 days old.  A fetch first deletes what is that old, then   *)
(* resumes the pending requests that are ready, then requests the types of *)
(* tickets that ran low when it began.  Every request has a task of its    *)
(* own, and a fetch that is aborted drops its tasks anywhere.              *)
(* Two fetches may run, as the account controller may leave one alone.     *)
(***************************************************************************)
EXTENDS Naturals

CONSTANTS
    Types,      \* types of tickets
    Ids,        \* ids that the API gives, and so a bound on requests
    NoId,
    Fetches,    \* runs of fetch_zk_nyms that there may be at a time
    Faults,     \* what may fail
    MayAbort    \* whether fetches are aborted, or the process killed

ASSUME ZkNymAssumption ==
    /\ NoId \notin Ids /\ Ids \cap Types = {}
    /\ Faults \subseteq {"answer", "refusal", "issuance", "keys", "write", "closed",
                         "polling", "timeout"}
    /\ MayAbort \in BOOLEAN

VARIABLES
    low,        \* the types of tickets that run low
    server,     \* the status and the type of each id, as the API has it
    confirmed,  \* the ids whose download the API was told of
    pending,    \* the ids of the database of pending requests
    stale,      \* those of them that are more than 60 days old
    stored,     \* the ids whose ticketbook, or token, is on disk
    run,        \* where each fetch is, its `ticket_types_to_request` and
                \* `pending_requests_data`
    task        \* each fetch's task that resumes an id or requests a type

api == <<server, confirmed>>
requests == <<pending, stale>>
tickets == <<low, stored>>
vars == <<tickets, api, requests, run, task>>

Status == {"none", "pending", "active", "upgrade_mode", "failed"}

Steps == {"send", "insert", "get", "poll", "import", "confirm", "remove"}
Before == {"cleaning", "reading", "listing"}
Results == {"ticketbook", "upgrade_mode", "error"}

NoTask == [step |-> "none", id |-> NoId, got |-> "ticketbook"]

(* What fetch_zk_nyms returns; Internal is its nonsense error.             *)
Outcomes == {"SufficientBandwidth", "FetchedTickets", "UpgradeMode", "Error", "Internal"}

ZkNymTypeOK ==
    /\ low \subseteq Types
    /\ server \in [Ids -> [status : Status, type : Types]]
    /\ confirmed \subseteq Ids /\ stored \subseteq Ids
    /\ pending \subseteq Ids /\ stale \subseteq pending
    /\ run \in [Fetches -> [phase : {"idle", "resuming", "requesting"} \cup Before \cup Outcomes,
                            types : SUBSET Types, ids : SUBSET Ids]]
    /\ task \in [Fetches -> [Ids \cup Types ->
                    [step : {"none", "done"} \cup Steps, id : Ids \cup {NoId}, got : Results]]]

-----------------------------------------------------------------------------
(* The run of a fetch.                                                     *)

Tasks(f) == {k \in Ids \cup Types : task[f][k].step # "none"}
Finished(f) == \A k \in Tasks(f) : task[f][k].step = "done"

SpawnResumes(f, ids) ==
    [task EXCEPT ![f] = [k \in Ids \cup Types |->
        IF k \in ids THEN [NoTask EXCEPT !.step = "get", !.id = k] ELSE task[f][k]]]
SpawnRequests(f, types) ==
    [task EXCEPT ![f] = [k \in Ids \cup Types |->
        IF k \in types THEN [NoTask EXCEPT !.step = "send"] ELSE task[f][k]]]

Phase(f, phase) == run' = [run EXCEPT ![f].phase = phase]

(* The types are read once, before the pending requests are resumed; no    *)
(* fair usage may be left, or the storage be closed.                       *)
BeginFetch(f) ==
    /\ run[f].phase = "idle"
    /\ \/ run' = [run EXCEPT ![f].phase = IF low = {} THEN "SufficientBandwidth" ELSE "cleaning",
                            ![f].types = low]
       \/ Phase(f, "Error")
    /\ UNCHANGED <<tickets, api, requests, task>>

(* clean_up_stale_requests; a failure is ignored.                          *)
CleanUp(f) ==
    /\ run[f].phase = "cleaning"
    /\ \/ pending' = pending \ stale /\ stale' = {}
       \/ {"write", "closed"} \cap Faults # {} /\ UNCHANGED requests
    /\ Phase(f, "reading")
    /\ UNCHANGED <<tickets, api, task>>

NothingToResume(f) ==
    /\ run' = [run EXCEPT ![f].phase = "requesting", ![f].ids = {}]
    /\ task' = SpawnRequests(f, run[f].types)

(* get_pending_request_ids: without any, the API is not asked.             *)
ReadPending(f) ==
    /\ run[f].phase = "reading"
    /\ \/ pending = {} /\ NothingToResume(f)
       \/ /\ pending # {}
          /\ run' = [run EXCEPT ![f].phase = "listing", ![f].ids = pending]
          /\ UNCHANGED task
       \/ "closed" \in Faults /\ NothingToResume(f)
    /\ UNCHANGED <<tickets, api, requests>>

(* The API lists what is ready and not confirmed, and may list the rest of *)
(* what is ready; the ids were read before.  A failure lists nothing.      *)
Ready == {id \in Ids : server[id].status \in {"active", "upgrade_mode"}}

List(f) ==
    /\ run[f].phase = "listing"
    /\ \/ \E old \in SUBSET (Ready \cap confirmed) :
            LET ids == ((Ready \ confirmed) \cup old) \cap run[f].ids
            IN  IF ids = {}
                THEN NothingToResume(f)
                ELSE /\ run' = [run EXCEPT ![f].phase = "resuming", ![f].ids = {}]
                     /\ task' = SpawnResumes(f, ids)
       \/ "refusal" \in Faults /\ NothingToResume(f)
    /\ UNCHANGED <<tickets, api, requests>>

(* What a fetch returns for the results of its tasks.                      *)
Outcome(got) ==
    CASE got = {} -> "Internal"
      [] "error" \in got -> "Error"
      [] "upgrade_mode" \in got /\ "error" \notin got -> "UpgradeMode"
      [] OTHER -> "FetchedTickets"

(* Mutant of Got: the tasks that the timeout drops are taken for done.      *)
GotOfAll(f) == {task[f][k].got : k \in Tasks(f)}

Got(f) == {task[f][k].got : k \in {x \in Tasks(f) : task[f][x].step = "done"}}

(***************************************************************************)
(* wait_for_join_set returns when every task has ended or, with only some  *)
(* results, on a timeout, which drops the other tasks.                     *)
(***************************************************************************)
Joined(f) ==
    /\ run[f].phase \in {"resuming", "requesting"}
    /\ Finished(f) \/ "timeout" \in Faults
    /\ LET kept == [k \in Ids \cup Types |->
                      IF task[f][k].step = "done" THEN task[f][k] ELSE NoTask]
       IN  IF run[f].phase = "resuming"
           THEN /\ Phase(f, "requesting")
                /\ task' = [task EXCEPT ![f] = [k \in Ids \cup Types |->
                        IF k \in run[f].types THEN [NoTask EXCEPT !.step = "send"]
                                              ELSE kept[k]]]
           ELSE /\ Phase(f, Outcome(Got(f)))
                /\ task' = [task EXCEPT ![f] = kept]
    /\ UNCHANGED <<tickets, api, requests>>

NoRun == [phase |-> "idle", types |-> {}, ids |-> {}]

(* Mutant of Idle: the tasks go on.                                        *)
IdleKeepsTasks(f) ==
    /\ run' = [run EXCEPT ![f] = NoRun]
    /\ UNCHANGED <<tickets, api, requests, task>>

Idle(f) ==
    /\ run' = [run EXCEPT ![f] = NoRun]
    /\ task' = [task EXCEPT ![f] = [k \in Ids \cup Types |-> NoTask]]
    /\ UNCHANGED <<tickets, api, requests>>

(* The account controller takes the outcome of a fetch, or aborts it.      *)
Handled(f) == run[f].phase \in Outcomes /\ Idle(f)
Abort(f) == MayAbort /\ run[f].phase \notin {"idle"} \cup Outcomes /\ Idle(f)

-----------------------------------------------------------------------------
(* A task k of the fetch f: request_zk_nym_ticketbook from `send` on and   *)
(* resume_request_zk_nym_ticketbook from `get` on.                         *)

At(f, k, step) == task[f][k].step = step
Id(f, k) == task[f][k].id

Go(f, k, step) == task' = [task EXCEPT ![f][k].step = step]
End(f, k, result) == task' = [task EXCEPT ![f][k].step = "done", ![f][k].got = result]

Fail(f, k, fault) == fault \in Faults /\ End(f, k, "error")

(* The request may be refused, or answered in vain.                        *)
Send(f, k) ==
    /\ At(f, k, "send")
    /\ \/ /\ \E id \in Ids :
              /\ server[id].status = "none"
              /\ server' = [server EXCEPT ![id] = [status |-> "pending", type |-> k]]
              /\ \/ task' = [task EXCEPT ![f][k].step = "insert", ![f][k].id = id]
                 \/ Fail(f, k, "answer")
       \/ /\ "refusal" \in Faults \/ \A id \in Ids : server[id].status # "none"
          /\ End(f, k, "error")
          /\ UNCHANGED server
    /\ UNCHANGED <<tickets, confirmed, requests, run>>

(* insert_pending_request.                                                 *)
Insert(f, k) ==
    /\ At(f, k, "insert")
    /\ \/ pending' = pending \cup {Id(f, k)} /\ Go(f, k, "get")
       \/ (Fail(f, k, "write") \/ Fail(f, k, "closed")) /\ UNCHANGED pending
    /\ UNCHANGED <<tickets, api, stale, run>>

(* get_pending_request: another fetch may have removed or deleted it.      *)
Get(f, k) ==
    /\ At(f, k, "get")
    /\ \/ Id(f, k) \in pending /\ Go(f, k, "poll")
       \/ Id(f, k) \notin pending /\ End(f, k, "error")
       \/ Fail(f, k, "closed")
    /\ UNCHANGED <<tickets, api, requests, run>>

(* poll_zk_nym, until the zk-nym is not pending; one whose download was    *)
(* confirmed may still be had.                                             *)
Poll(f, k) ==
    /\ At(f, k, "poll")
    /\ LET status == server[Id(f, k)].status
       IN  \/ status \in {"active", "upgrade_mode"}
                /\ task' = [task EXCEPT ![f][k].step = "import",
                              ![f][k].got = IF status = "active" THEN "ticketbook"
                                            ELSE "upgrade_mode"]
           \/ status = "failed" /\ End(f, k, "error")
           \/ Id(f, k) \in confirmed /\ End(f, k, "error")
           \/ Fail(f, k, "refusal")
           \/ status = "pending" /\ Fail(f, k, "polling")
    /\ UNCHANGED <<tickets, api, requests, run>>

(***************************************************************************)
(* import_retrieved_zk_nym and import_retrieved_upgrade_mode_token.  Keys  *)
(* or signatures may be missing.  A ticketbook that is stored already is a *)
(* unique violation and taken for success; so is any other error that the  *)
(* database reports, such as a full disk.  The token of the upgrade mode   *)
(* has no such exception, and is stored again to no effect.                *)
(***************************************************************************)
Stored(f, k) ==
    /\ stored' = stored \cup {Id(f, k)}
    /\ low' = IF task[f][k].got = "ticketbook" THEN low \ {server[Id(f, k)].type} ELSE low

(* Mutant of Import: every error of the storage is taken for success.      *)
ImportSwallowing(f, k) ==
    /\ At(f, k, "import")
    /\ \/ Stored(f, k)
       \/ "closed" \in Faults /\ UNCHANGED tickets
    /\ Go(f, k, "confirm")
    /\ UNCHANGED <<api, requests, run>>

Import(f, k) ==
    /\ At(f, k, "import")
    /\ \/ Stored(f, k) /\ Go(f, k, "confirm")
       \/ /\ \/ "write" \in Faults /\ task[f][k].got = "ticketbook" /\ Go(f, k, "confirm")
             \/ "write" \in Faults /\ task[f][k].got # "ticketbook" /\ End(f, k, "error")
             \/ Fail(f, k, "keys") \/ Fail(f, k, "closed")
          /\ UNCHANGED tickets
    /\ UNCHANGED <<api, requests, run>>

(* Mutant of ConfirmFails: the request is removed all the same.            *)
ConfirmFailsUnnoticed(f, k) ==
    /\ Go(f, k, "remove")
    /\ confirmed' \in {confirmed, confirmed \cup {Id(f, k)}}

(* The API was not reached, or its answer was not.                         *)
ConfirmFails(f, k) ==
    /\ End(f, k, "error")
    /\ confirmed' \in {confirmed, confirmed \cup {Id(f, k)}}

(* confirm_zk_nym_downloaded; a second confirmation may be refused.        *)
Confirm(f, k) ==
    /\ At(f, k, "confirm")
    /\ \/ /\ confirmed' = confirmed \cup {Id(f, k)}
          /\ Go(f, k, "remove")
       \/ "answer" \in Faults /\ ConfirmFails(f, k)
       \/ /\ Id(f, k) \in confirmed
          /\ End(f, k, "error")
          /\ UNCHANGED confirmed
    /\ UNCHANGED <<tickets, server, requests, run>>

(* remove_pending_request.                                                 *)
Remove(f, k) ==
    /\ At(f, k, "remove")
    /\ \/ /\ pending' = pending \ {Id(f, k)} /\ stale' = stale \ {Id(f, k)}
          /\ End(f, k, task[f][k].got)
       \/ (Fail(f, k, "write") \/ Fail(f, k, "closed")) /\ UNCHANGED requests
    /\ UNCHANGED <<tickets, api, run>>

TaskStep(f, k) ==
    \/ Send(f, k)
    \/ Insert(f, k)
    \/ Get(f, k)
    \/ Poll(f, k)
    \/ Import(f, k)
    \/ Confirm(f, k)
    \/ Remove(f, k)

-----------------------------------------------------------------------------
(* The environment: the API makes the zk-nym, or does not; 60 days pass;   *)
(* tickets are used up.                                                    *)

Issue(id) ==
    /\ server[id].status = "pending"
    /\ \E status \in {"active", "upgrade_mode"}
                        \cup IF "issuance" \in Faults THEN {"failed"} ELSE {} :
        server' = [server EXCEPT ![id].status = status]
    /\ UNCHANGED <<tickets, confirmed, requests, run, task>>

Age(id) ==
    /\ id \in pending \ stale
    /\ stale' = stale \cup {id}
    /\ UNCHANGED <<tickets, api, pending, run, task>>

Use(t) ==
    /\ low' = low \cup {t}
    /\ UNCHANGED <<stored, api, requests, run, task>>

Init ==
    /\ low = {} /\ stored = {}
    /\ \E t \in Types : server = [id \in Ids |-> [status |-> "none", type |-> t]]
    /\ confirmed = {}
    /\ pending = {} /\ stale = {}
    /\ run = [f \in Fetches |-> NoRun]
    /\ task = [f \in Fetches |-> [k \in Ids \cup Types |-> NoTask]]

FetchStep(f) ==
    \/ BeginFetch(f)
    \/ CleanUp(f)
    \/ ReadPending(f)
    \/ List(f)
    \/ Joined(f)
    \/ Handled(f)
    \/ \E k \in Ids \cup Types : TaskStep(f, k)

Next ==
    \/ \E f \in Fetches : FetchStep(f) \/ Abort(f)
    \/ \E id \in Ids : Issue(id) \/ Age(id)
    \/ \E t \in Types : Use(t)

Spec == Init /\ [][Next]_vars

-----------------------------------------------------------------------------

(* The types stay right, and the tasks of a fetch are of its phase.        *)
TypeOK ==
    /\ ZkNymTypeOK
    /\ \A f \in Fetches :
        /\ run[f].phase \in {"idle"} \cup Before => Tasks(f) = {}
        /\ Tasks(f) \cap Types \subseteq run[f].types

(* "Once we successfully manage to import the zk-nym ticketbook, or upgrade*)
(* mode attestation, we tell the vpn-api that we have downloaded it"       *)
(* (request.rs:196-198): what the API takes for downloaded is on disk,     *)
(* wherever the fetches are aborted.                                       *)
ConfirmedIsImported == confirmed \subseteq stored

(* The secret of a request is given up only once the API has been told that*)
(* its ticketbook is downloaded, or when the request is 60 days old: until *)
(* then a later fetch can resume it.                                       *)
KeptUntilConfirmed == [][pending \ pending' \subseteq confirmed \cup stale]_vars

(***************************************************************************)
(* A fetch reports tickets, or the upgrade mode, for what is stored and    *)
(* confirmed, and nothing for a task that the timeout or an error cut      *)
(* short: the controller is not told of tickets that are not there.        *)
(***************************************************************************)
ReportedIsStored ==
    \A f \in Fetches :
        /\ run[f].phase = "FetchedTickets" =>
              /\ Tasks(f) # {}
              /\ \A k \in Tasks(f) : Id(f, k) \in stored \cap confirmed
        /\ run[f].phase = "UpgradeMode" =>
              \E k \in Tasks(f) :
                  task[f][k].got = "upgrade_mode" /\ Id(f, k) \in stored \cap confirmed

=============================================================================
