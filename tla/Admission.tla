------------------------------ MODULE Admission ------------------------------
(***************************************************************************)
(* The admission webhooks (internal/webhook/v1alpha1): what a Notifier     *)
(* must look like to be stored, and the default a GitlabProject receives.  *)
(* Both run before the API server persists a create or an update, with     *)
(* failurePolicy Fail.                                                     *)
(***************************************************************************)

Providers == {"discord", "slack", "telegram"}

ValidEvents == {"pipeline_running", "pipeline_success", "pipeline_failed",
                "pipeline_canceled", "new_commit"}

\* A Notifier spec is [events |-> set of event names, providers |-> set of providers].
ValidateNotifier(spec) ==
    /\ spec.providers # {}
    /\ spec.events # {}
    /\ spec.events \subseteq ValidEvents

\* What the defaulting webhook stores for the visibility of a GitlabProject.
DefaultVisibility(visibility) == IF visibility = "" THEN "private" ELSE visibility
=============================================================================
