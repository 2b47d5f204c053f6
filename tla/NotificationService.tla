------------------------- MODULE NotificationService -------------------------
(***************************************************************************)
(* The pure part of the notification path (pkg/domain/services/            *)
(* notification.go): which events a project's observed commit and pipeline *)
(* raise, compared with what was last notified, and the record that        *)
(* results.  No variables: Notifier.tla steps through the calls around it. *)
(***************************************************************************)
EXTENDS Naturals, Sequences

CONSTANTS
    Shas,         \* commit identifiers
    NoSha,        \* the empty SHA: no commit known
    PipelineIds,  \* pipeline identifiers; 0 stands for "no pipeline"
    Statuses      \* the pipeline statuses GitLab reports; "" for no pipeline

ASSUME ServiceAssumption ==
    /\ NoSha \notin Shas
    /\ PipelineIds \subseteq Nat \ {0}
    /\ "" \notin Statuses

\* The subscribable events.
Events == {"pipeline_running", "pipeline_success", "pipeline_failed",
           "pipeline_canceled", "new_commit"}

\* A commit and a pipeline as one value.  The same shape serves the project's
\* reported status and ProjectNotificationState, what was last notified.
Observation == [sha    : Shas \cup {NoSha},
                id     : PipelineIds \cup {0},
                status : Statuses \cup {""}]

\* The zero value of both; a key missing from status.projectStates reads as it.
Nothing == [sha |-> NoSha, id |-> 0, status |-> ""]

\* The event a pipeline status stands for; "" for a status nobody can subscribe to.
EventOf(status) ==
    CASE status = "running"  -> "pipeline_running"
      [] status = "success"  -> "pipeline_success"
      [] status = "failed"   -> "pipeline_failed"
      [] status = "canceled" -> "pipeline_canceled"
      [] OTHER               -> ""

CommitFires(subscribed, obs, state) ==
    /\ obs.sha # NoSha
    /\ obs.sha # state.sha
    /\ "new_commit" \in subscribed

PipelineFires(subscribed, obs, state) ==
    /\ obs.id # 0
    /\ obs.id # state.id \/ obs.status # state.status
    /\ EventOf(obs.status) \in subscribed

\* The events to send, the commit first, ...
DetectEvents(subscribed, obs, state) ==
    (IF CommitFires(subscribed, obs, state) THEN <<"new_commit">> ELSE <<>>)
    \o
    (IF PipelineFires(subscribed, obs, state) THEN <<EventOf(obs.status)>> ELSE <<>>)

\* ... and the record updated in place: an event nobody subscribed to leaves no trace.
Detected(subscribed, obs, state) ==
    [sha    |-> IF CommitFires(subscribed, obs, state) THEN obs.sha ELSE state.sha,
     id     |-> IF PipelineFires(subscribed, obs, state) THEN obs.id ELSE state.id,
     status |-> IF PipelineFires(subscribed, obs, state) THEN obs.status ELSE state.status]
=============================================================================
